---- MODULE Spec2Model ----
(***************************************************************************)
(* Scrublet doublet detection (scanpy/preprocessing/_scrublet): the        *)
(* Scrublet object of core.py and the AnnData wrappers of __init__.py.     *)
(*                                                                         *)
(* Numbers: a Python/numpy float is a record [k, n, d]: k = "fin" with the *)
(* exact rational n/d (d > 0, lowest terms), or k = "nan" / "inf" /        *)
(* "ninf".  The inputs are dyadic or small rationals, for which the exact  *)
(* value and the float64 value of the expressions below agree.             *)
(* An attribute that may be missing or None is a record [tag, v] with tag  *)
(* "absent" (no such attribute), "None" or "val".                          *)
(*                                                                         *)
(* core.py names two fields _E_sim and random_state which __init__.py      *)
(* reads as _counts_sim and _random_state; the model has one field each.   *)
(***************************************************************************)
EXTENDS Integers, Sequences, FiniteSets, TLC

VARIABLES scrub, np_random, mt, ret, knn_call, adata, ref, last

vars == <<scrub, np_random, mt, ret, knn_call, adata, ref, last>>

(***************************************************************************)
(* Bounds of the model.                                                    *)
(***************************************************************************)
\* observed cells plus simulated doublets in one run
MaxPool == 4
\* UMIs in the whole observed counts matrix
MaxUMI == 2
\* genes (columns of the counts matrix)
NumGenes == 2
\* integer seeds 0..MaxSeed
MaxSeed == 1
\* UMIs per cell that total_counts may hold beyond the row sum of the matrix
MaxHidden == 1

Seeds == 0..MaxSeed

(***************************************************************************)
(* Exact arithmetic.                                                       *)
(***************************************************************************)
Abs(x) == IF x < 0 THEN -x ELSE x

RECURSIVE Gcd(_, _)
Gcd(a, b) == IF b = 0 THEN a ELSE Gcd(b, a % b)

Fin(n, d) ==
    LET g == Gcd(Abs(n), Abs(d))
        s == IF d < 0 THEN -1 ELSE 1
    IN  [k |-> "fin", n |-> s * (n \div g), d |-> s * (d \div g)]

NaN == [k |-> "nan", n |-> 0, d |-> 1]
PosInf == [k |-> "inf", n |-> 0, d |-> 1]
NegInf == [k |-> "ninf", n |-> 0, d |-> 1]

IsFin(x) == x.k = "fin"

\* int(x) of a finite float: truncation toward zero
IntTrunc(x) == IF x.n >= 0 THEN x.n \div x.d ELSE -((-x.n) \div x.d)

\* x < y for finite floats
FLess(x, y) == x.n * y.d < y.n * x.d

RECURSIVE SumSeq(_)
SumSeq(s) == IF s = <<>> THEN 0 ELSE Head(s) + SumSeq(Tail(s))

(***************************************************************************)
(* Optional attributes.                                                    *)
(***************************************************************************)
AbsentArr == [tag |-> "absent", v |-> <<>>]
NoneArr == [tag |-> "None", v |-> <<>>]
Val(x) == [tag |-> "val", v |-> x]
AbsentNum == [tag |-> "absent", v |-> NaN]
NoneNum == [tag |-> "None", v |-> NaN]

(***************************************************************************)
(* numpy's global generator.  np_random = [seed, pos] is its state: the    *)
(* seed it was last seeded with and the number of variates drawn since.    *)
(* mt is the generator itself, one of the functions of Generators: a fixed *)
(* function of (seed, position), reproducible and otherwise arbitrary.     *)
(***************************************************************************)
\* levels of one uniform variate
Resolution == MaxPool + 1

Generators == {[mul |-> 2, inc |-> 1], [mul |-> 3, inc |-> 2]}

RECURSIVE GenState(_, _)
GenState(seed, i) ==
    IF i = 0 THEN seed % Resolution
    ELSE (mt.mul * GenState(seed, i - 1) + mt.inc + i) % Resolution

\* the variate the generator yields at position pos after seeding with seed
RandomSample(seed, pos) == GenState(seed, pos + 1)

\* np.random.seed(seed)
NpRandomSeed(seed) == [seed |-> seed, pos |-> 0]

\* np.random.randint(0, high), drawn at generator state rng
RandInt(rng, offset, high) ==
    (RandomSample(rng.seed, rng.pos + offset) * high) \div Resolution

\* np.random.randint(0, n_obs, size=(n_sim, 2)), rows filled in order
RandIntPairs(rng, n_obs, n_sim) ==
    [j \in 1..n_sim |->
        <<RandInt(rng, 2 * (j - 1), n_obs), RandInt(rng, 2 * (j - 1) + 1, n_obs)>>]

\* np.random.binomial(n, p) for 0 < p < 1: any count 0..n, fixed by the variate
Binomial(rng, offset, n) ==
    (RandomSample(rng.seed, rng.pos + offset) * (n + 1)) \div Resolution

(***************************************************************************)
(* Count matrices: a sequence of rows, each a sequence of NumGenes counts. *)
(***************************************************************************)
Genes == 1..NumGenes

ZeroMatrix(n) == [i \in 1..n |-> [g \in Genes |-> 0]]

RECURSIVE MatricesWith(_, _)
\* the n-row matrices holding exactly u UMIs
MatricesWith(n, u) ==
    IF u = 0 THEN {ZeroMatrix(n)}
    ELSE {[m EXCEPT ![i][g] = @ + 1] :
            m \in MatricesWith(n, u - 1), i \in 1..n, g \in Genes}

Matrices(n) == UNION {MatricesWith(n, u) : u \in 0..MaxUMI}

RowSums(E) == [i \in 1..Len(E) |-> SumSeq(E[i])]

\* E[ix, :] for a 0-based index array ix
TakeRows(E, ix) == [j \in 1..Len(ix) |-> E[ix[j] + 1]]

\* x[ix] for a 0-based index array ix
TakeItems(x, ix) == [j \in 1..Len(ix) |-> x[ix[j] + 1]]

MatAdd(A, B) == [j \in 1..Len(A) |-> [g \in Genes |-> A[j][g] + B[j][g]]]

VecAdd(a, b) == [j \in 1..Len(a) |-> a[j] + b[j]]

Column(pairs, c) == [j \in 1..Len(pairs) |-> pairs[j][c]]

(***************************************************************************)
(* Scrublet.__init__                                                       *)
(***************************************************************************)
NoneInt == [tag |-> "None", v |-> 0]
NoManifold == [tag |-> "absent", obs |-> <<>>, sim |-> <<>>]

\* round() of a finite float x >= 0: to the nearest integer, a tie to the even one
RoundHalfEven(x) ==
    LET f == x.n \div x.d
        twice == 2 * (x.n - f * x.d)
    IN  IF twice < x.d THEN f
        ELSE IF twice > x.d THEN f + 1
        ELSE IF f % 2 = 0 THEN f ELSE f + 1

\* variant: half of the square root rounded half up
AutoNeighborsHalfUp(n) ==
    CHOOSE m \in 0..n :
        /\ (m = 0 \/ (2 * m - 1) * (2 * m - 1) <= n)
        /\ n < (2 * m + 1) * (2 * m + 1)

\* int(round(0.5 * np.sqrt(n)))
AutoNeighbors(n) ==
    LET cands == {m \in 0..n :
                    /\ (m = 0 \/ (2 * m - 1) * (2 * m - 1) <= n)
                    /\ n <= (2 * m + 1) * (2 * m + 1)}
    IN  IF Cardinality(cands) = 1 THEN CHOOSE m \in cands : TRUE
        ELSE CHOOSE m \in cands : m % 2 = 0

Scrublet(counts_matrix, total_counts, sim_doublet_ratio, n_neighbors, expected_doublet_rate, stdev_doublet_rate, random_state) ==
    [E_obs |-> counts_matrix,
     E_sim |-> NoneArr,
     total_counts_obs |->
        IF total_counts.tag = "None" THEN RowSums(counts_matrix)
        ELSE total_counts.v,
     total_counts_sim |-> AbsentArr,
     sim_doublet_ratio |-> sim_doublet_ratio,
     n_neighbors |->
        IF n_neighbors.tag = "None" THEN AutoNeighbors(Len(counts_matrix))
        ELSE n_neighbors.v,
     expected_doublet_rate |-> expected_doublet_rate,
     stdev_doublet_rate |-> stdev_doublet_rate,
     random_state |-> random_state,
     doublet_parents_ |-> AbsentArr,
     manifold_ |-> NoManifold,
     doublet_scores_obs_ |-> AbsentArr,
     doublet_scores_sim_ |-> AbsentArr,
     doublet_errors_obs_ |-> AbsentArr,
     doublet_errors_sim_ |-> AbsentArr,
     doublet_neighbor_parents_ |-> AbsentArr,
     predicted_doublets_ |-> AbsentArr,
     z_scores_ |-> AbsentArr,
     threshold_ |-> AbsentNum,
     detected_doublet_rate_ |-> AbsentNum,
     detectable_doublet_fraction_ |-> AbsentNum,
     overall_doublet_rate_ |-> AbsentNum]

(***************************************************************************)
(* utils.subsample_counts: binomial thinning of every count, seeded; the   *)
(* totals returned are the row sums of the thinned matrix.                 *)
(***************************************************************************)
SubsampleCounts(E, rate, original_totals, random_seed) ==
    LET rng == NpRandomSeed(random_seed)
        thinned == [j \in 1..Len(E) |->
                      [g \in Genes |->
                         Binomial(rng, (j - 1) * NumGenes + (g - 1), E[j][g])]]
    IN  [E |-> thinned,
         totals |-> RowSums(thinned),
         rng |-> [rng EXCEPT !.pos = Len(E) * NumGenes]]

(***************************************************************************)
(* Scrublet.simulate_doublets                                              *)
(***************************************************************************)
\* variant: n_sim rounded to the nearest integer
NSimRounded(n_obs, ratio) ==
    IF ratio.n < 0 THEN -1 ELSE RoundHalfEven(Fin(n_obs * ratio.n, ratio.d))

\* n_sim = int(n_obs * sim_doublet_ratio)
NSim(n_obs, ratio) == IntTrunc(Fin(n_obs * ratio.n, ratio.d))

\* variant: the generator is not seeded
SeedForPairsNot(self, rng0) == rng0

\* np.random.seed(self.random_state) before the pairs are drawn
SeedForPairs(self, rng0) == NpRandomSeed(self.random_state)

\* variant: both parents taken from the first column of pair_ix
SyntheticCountsOneColumn(self, pair_ix, rng, rate) ==
    LET E1 == TakeRows(self.E_obs, Column(pair_ix, 1))
        tots1 == TakeItems(self.total_counts_obs, Column(pair_ix, 1))
    IN  [E |-> MatAdd(E1, E1), totals |-> VecAdd(tots1, tots1), rng |-> rng]

\* variant: the totals of the thinned doublets are the un-thinned sums
SyntheticCountsTargetTotals(self, pair_ix, rng, rate) ==
    LET E1 == TakeRows(self.E_obs, Column(pair_ix, 1))
        E2 == TakeRows(self.E_obs, Column(pair_ix, 2))
        tots1 == TakeItems(self.total_counts_obs, Column(pair_ix, 1))
        tots2 == TakeItems(self.total_counts_obs, Column(pair_ix, 2))
        thin == SubsampleCounts(MatAdd(E1, E2), rate, VecAdd(tots1, tots2),
                                self.random_state)
    IN  IF FLess(rate, Fin(1, 1))
        THEN [thin EXCEPT !.totals = VecAdd(tots1, tots2)]
        ELSE [E |-> MatAdd(E1, E2), totals |-> VecAdd(tots1, tots2), rng |-> rng]

\* the synthetic counts and totals of the pairs pair_ix
SyntheticCounts(self, pair_ix, rng, rate) ==
    LET E1 == TakeRows(self.E_obs, Column(pair_ix, 1))
        E2 == TakeRows(self.E_obs, Column(pair_ix, 2))
        tots1 == TakeItems(self.total_counts_obs, Column(pair_ix, 1))
        tots2 == TakeItems(self.total_counts_obs, Column(pair_ix, 2))
    IN  IF FLess(rate, Fin(1, 1))
        THEN SubsampleCounts(MatAdd(E1, E2), rate, VecAdd(tots1, tots2),
                             self.random_state)
        ELSE [E |-> MatAdd(E1, E2), totals |-> VecAdd(tots1, tots2), rng |-> rng]

\* the object, the generator and the outcome after
\* self.simulate_doublets(sim_doublet_ratio=ratio_arg,
\*                        synthetic_doublet_umi_subsampling=rate)
SimulateDoublets(self, rng0, ratio_arg, rate) ==
    LET ratio == IF ratio_arg.tag = "None" THEN self.sim_doublet_ratio
                 ELSE ratio_arg.v
        self1 == [self EXCEPT !.sim_doublet_ratio = ratio]
        n_obs == Len(self.E_obs)
        n_sim == NSim(n_obs, ratio)
        rng1 == SeedForPairs(self, rng0)
    IN  IF n_sim < 0
        THEN \* randint: negative dimensions are not allowed
             [self |-> self1, rng |-> rng1, exc |-> "ValueError"]
        ELSE LET pair_ix == RandIntPairs(rng1, n_obs, n_sim)
                 rng2 == [rng1 EXCEPT !.pos = @ + 2 * n_sim]
                 sim == SyntheticCounts(self, pair_ix, rng2, rate)
             IN  [self |-> [self1 EXCEPT !.E_sim = Val(sim.E),
                                         !.total_counts_sim = Val(sim.totals),
                                         !.doublet_parents_ = Val(pair_ix)],
                  rng |-> sim.rng,
                  exc |-> "none"]

(***************************************************************************)
(* Inputs.                                                                 *)
(***************************************************************************)
PositiveRatios == {Fin(1, 2), Fin(1, 1), Fin(3, 2), Fin(2, 1)}
Ratios == PositiveRatios \cup {Fin(0, 1), Fin(-1, 1)}
Rates == {Fin(1, 2), Fin(1, 1)}
DefaultRate == Fin(1, 10)
DefaultStdev == Fin(1, 50)

\* the ratios whose pool of n_obs observed cells and doublets is within MaxPool
FitRatios(n_obs, ratios) ==
    {r \in ratios : NSim(n_obs, r) < 0 \/ n_obs + NSim(n_obs, r) <= MaxPool}

ObsSizes == {n \in 1..MaxPool : FitRatios(n, PositiveRatios) # {}}

\* total_counts as the caller may pass it: None, or the row sums plus the
\* UMIs of genes that are not columns of the matrix
TotalCountsArgs(E) ==
    {NoneArr, Val([i \in 1..Len(E) |-> RowSums(E)[i] + MaxHidden])}

NoCall ==
    [op |-> "__init__", ratio |-> NoneNum, rate |-> Fin(1, 1),
     threshold |-> NoneNum, searched |-> FALSE, failed |-> FALSE,
     get_parents |-> FALSE, random_state |-> 0, pooled |-> <<>>,
     batch_key |-> [tag |-> "None", v |-> ""],
     mean_center |-> TRUE, normalize_variance |-> TRUE, stages |-> <<>>,
     n_neighbors |-> [tag |-> "None", v |-> 0],
     expected_doublet_rate |-> Fin(1, 10), copy |-> FALSE, runs |-> <<>>,
     log_transform |-> FALSE, obs_stages |-> <<>>, sim_stages |-> <<>>]

NoRef ==
    [valid |-> FALSE, fresh |-> FALSE, other_use |-> FALSE, new_object |-> FALSE,
     E_obs |-> <<>>, total_counts_obs |-> <<>>,
     ratio |-> Fin(1, 1), rate |-> Fin(1, 1), random_state |-> 0,
     doublet_parents_ |-> <<>>, E_sim |-> <<>>, total_counts_sim |-> <<>>]

\* the last get_knn_graph call: its arguments and the graph it returned
NoKnn ==
    [called |-> FALSE, k |-> 0, n_points |-> 0, random_seed |-> 0,
     neighbors |-> <<>>]
NoAdata == [tag |-> "absent"]
Returned(v) == [exc |-> "none", v |-> v]
Raised(e) == [exc |-> e, v |-> NoneArr]

(***************************************************************************)
(* Doublet simulation on one Scrublet object.                              *)
(***************************************************************************)
\* the largest of the ratios 1/2, 1, 2 (2.0 is the default) that fits n_obs
CtorRatio(n_obs) ==
    LET fit == FitRatios(n_obs, {Fin(1, 2), Fin(1, 1), Fin(2, 1)})
    IN  CHOOSE r \in fit : \A q \in fit : ~FLess(r, q)

InitOther ==
    /\ np_random = NpRandomSeed(0)
    /\ mt \in Generators
    /\ ret = Returned(NoneArr)
    /\ knn_call = NoKnn
    /\ adata = NoAdata
    /\ ref = NoRef
    /\ last = NoCall

InitSim ==
    /\ \E n \in ObsSizes : \E E \in Matrices(n) :
         \E tc \in TotalCountsArgs(E), rs \in Seeds :
            scrub = Scrublet(E, tc, CtorRatio(n), NoneInt, DefaultRate,
                             DefaultStdev, rs)
    /\ InitOther

\* the simulation just made, as a reference for later ones
RefOf(self, rate) ==
    [valid |-> TRUE, fresh |-> TRUE, other_use |-> FALSE, new_object |-> FALSE,
     E_obs |-> self.E_obs,
     total_counts_obs |-> self.total_counts_obs,
     ratio |-> self.sim_doublet_ratio, rate |-> rate,
     random_state |-> self.random_state,
     doublet_parents_ |-> self.doublet_parents_.v, E_sim |-> self.E_sim.v,
     total_counts_sim |-> self.total_counts_sim.v]

RatioArgs == {NoneNum} \cup {Val(r) : r \in Ratios}

\* scrub.simulate_doublets(sim_doublet_ratio=ratio_arg,
\*                         synthetic_doublet_umi_subsampling=rate)
SimulateCall(ratio_args, keeps) ==
    \E ratio_arg \in ratio_args, rate \in Rates, keep \in keeps :
        /\ (IF ratio_arg.tag = "None" THEN scrub.sim_doublet_ratio
            ELSE ratio_arg.v) \in FitRatios(Len(scrub.E_obs), Ratios)
        /\ \E out \in {SimulateDoublets(scrub, np_random, ratio_arg, rate)} :
            /\ scrub' = out.self
            /\ np_random' = out.rng
            /\ ret' = IF out.exc = "none" THEN Returned(NoneArr)
                      ELSE Raised(out.exc)
            /\ last' = [NoCall EXCEPT !.op = "simulate_doublets",
                                      !.ratio = ratio_arg, !.rate = rate]
            /\ ref' = IF keep /\ out.exc = "none" THEN RefOf(out.self, rate)
                      ELSE [ref EXCEPT !.fresh = FALSE]
            /\ UNCHANGED <<mt, knn_call, adata>>

simulate_doublets == SimulateCall(RatioArgs, {FALSE})

NextSim == simulate_doublets

SpecSim == InitSim /\ [][NextSim]_vars

(***************************************************************************)
(* Repeated simulations, on one object or on a new one, with other uses of *)
(* the global generator in between; ref keeps one earlier simulation.      *)
(***************************************************************************)
DetMatrix(n) ==
    [i \in 1..n |-> [g \in Genes |-> IF g = ((i - 1) % NumGenes) + 1 THEN 1 ELSE 0]]

InitDet ==
    /\ \E n \in ObsSizes, rs \in Seeds :
         scrub = Scrublet(DetMatrix(n), NoneArr, CtorRatio(n), NoneInt,
                          DefaultRate, DefaultStdev, rs)
    /\ InitOther

simulate_doublets_kept ==
    SimulateCall({NoneNum} \cup {Val(r) : r \in PositiveRatios}, BOOLEAN)

\* a new Scrublet object on the same counts matrix
NewScrublet ==
    /\ \E rs \in Seeds :
         scrub' = Scrublet(scrub.E_obs, NoneArr, CtorRatio(Len(scrub.E_obs)),
                           NoneInt, DefaultRate, DefaultStdev, rs)
    /\ ret' = Returned(NoneArr)
    /\ last' = NoCall
    /\ ref' = [ref EXCEPT !.fresh = FALSE, !.new_object = ref.valid]
    /\ UNCHANGED <<np_random, mt, knn_call, adata>>

\* any other use of numpy's global generator between two calls
OtherRandomUse ==
    /\ \E s \in Seeds : np_random' = [seed |-> s, pos |-> 1]
    /\ ref' = [ref EXCEPT !.fresh = FALSE, !.other_use = ref.valid]
    /\ UNCHANGED <<scrub, mt, ret, knn_call, adata, last>>

NextDet == simulate_doublets_kept \/ NewScrublet \/ OtherRandomUse

SpecDet == InitDet /\ [][NextDet]_vars

(***************************************************************************)
(* Float arithmetic with numpy's non-finite results (a division by zero    *)
(* gives inf or nan and a warning, no exception).                          *)
(***************************************************************************)
Sign(x) ==
    CASE x.k = "inf" -> 1
      [] x.k = "ninf" -> -1
      [] x.k = "fin" -> (IF x.n > 0 THEN 1 ELSE IF x.n < 0 THEN -1 ELSE 0)
      [] OTHER -> 0

Signed(s) == IF s > 0 THEN PosInf ELSE IF s < 0 THEN NegInf ELSE NaN

FNeg(x) ==
    CASE x.k = "fin" -> Fin(-x.n, x.d)
      [] x.k = "inf" -> NegInf
      [] x.k = "ninf" -> PosInf
      [] OTHER -> NaN

FAdd(x, y) ==
    IF x.k = "nan" \/ y.k = "nan" THEN NaN
    ELSE IF IsFin(x) /\ IsFin(y)
         THEN LET c == Gcd(x.d, y.d)
              IN  Fin(x.n * (y.d \div c) + y.n * (x.d \div c),
                      (x.d \div c) * y.d)
    ELSE IF IsFin(x) THEN y
    ELSE IF IsFin(y) THEN x
    ELSE IF x.k = y.k THEN x ELSE NaN

FSub(x, y) == FAdd(x, FNeg(y))

FMul(x, y) ==
    IF x.k = "nan" \/ y.k = "nan" THEN NaN
    ELSE IF IsFin(x) /\ IsFin(y)
         THEN LET a == Gcd(Abs(x.n), y.d)
                  b == Gcd(Abs(y.n), x.d)
              IN  Fin((x.n \div a) * (y.n \div b), (x.d \div b) * (y.d \div a))
    ELSE Signed(Sign(x) * Sign(y))

FDiv(x, y) ==
    IF x.k = "nan" \/ y.k = "nan" THEN NaN
    ELSE IF IsFin(x) /\ IsFin(y)
         THEN (IF y.n = 0 THEN Signed(Sign(x))
               ELSE FMul(x, Fin(y.d * Sign(y), Abs(y.n))))
    ELSE IF IsFin(x) THEN Fin(0, 1)
    ELSE IF IsFin(y) THEN Signed(Sign(x) * (IF y.n < 0 THEN -1 ELSE 1))
    ELSE NaN

\* x > y as numpy compares: False when either is nan
FGreater(x, y) ==
    /\ x.k # "nan" /\ y.k # "nan"
    /\ IF IsFin(x) /\ IsFin(y) THEN x.n * y.d > y.n * x.d
       ELSE IF x.k = y.k THEN FALSE
       ELSE x.k = "inf" \/ y.k = "ninf"

One == Fin(1, 1)

(***************************************************************************)
(* The embedding and the neighbour search (utils.pipeline_pca,             *)
(* utils.get_knn_graph).  A manifold is one coordinate per cell: a fixed   *)
(* linear projection of the cell's counts, the same for observed cells and *)
(* doublets.  A neighbour graph gives every pooled point the set of its k  *)
(* neighbours, as pooled indices (observed 0..n_obs-1, then simulated),    *)
(* never the point itself.  The exact search takes the k nearest, ties to  *)
(* the lower index; the approximate search may return any such graph.      *)
(***************************************************************************)
\* a sequence given by a rule, as the array of its values
Array(f) == SubSeq(f, 1, Len(f))

\* a matrix of counts as a matrix of floats
AsFloat(E) ==
    Array([i \in 1..Len(E) |-> Array([g \in Genes |-> Fin(E[i][g], 1)])])

RECURSIVE FSum(_)
FSum(s) == IF s = <<>> THEN Fin(0, 1) ELSE FAdd(Head(s), FSum(Tail(s)))

FAbs(x) == IF Sign(x) < 0 THEN FNeg(x) ELSE x

Project(row) == FSum([g \in Genes |-> FMul(Fin(g, 1), row[g])])

Embed(X) == Array([i \in 1..Len(X) |-> Project(X[i])])

\* Scrublet.set_manifold
SetManifold(self, manifold_obs, manifold_sim) ==
    [self EXCEPT !.manifold_ = [tag |-> "val", obs |-> manifold_obs,
                                sim |-> manifold_sim]]

\* k-subsets of a finite set
KSubsets(S, k) == {T \in SUBSET S : Cardinality(T) = k}

ExactNeighbors(coords, i, k) ==
    LET others == (1..Len(coords)) \ {i}
        dist(j) == FAbs(FSub(coords[j], coords[i]))
        before(l, j) ==
            FLess(dist(l), dist(j)) \/ (dist(l) = dist(j) /\ l < j)
    IN  {j - 1 : j \in {j \in others :
                          Cardinality({l \in others : before(l, j)}) < k}}

\* every choice of k neighbours for each of the first m of n points
RECURSIVE AnyNeighbors(_, _, _)
AnyNeighbors(n, m, k) ==
    IF m = 0 THEN {<<>>}
    ELSE {Append(g, T) : g \in AnyNeighbors(n, m - 1, k),
                         T \in KSubsets((0..(n - 1)) \ {m - 1}, k)}

\* the graphs get_knn_graph(manifold, k, approx=approx) may return; none when
\* k exceeds the number of other points (the search raises ValueError)
KnnGraphs(coords, k, approx) ==
    LET n == Len(coords)
    IN  IF k > n - 1 THEN {}
        ELSE IF approx THEN AnyNeighbors(n, n, k)
        ELSE {[i \in 1..n |-> ExactNeighbors(coords, i, k)]}

(***************************************************************************)
(* Scrublet._nearest_neighbor_classifier / calculate_doublet_scores.       *)
(* A standard error is kept as its square, which is rational.              *)
(***************************************************************************)
\* the scaled neighbour count truncated instead of rounded
KAdjTruncated(k, n_obs, n_sim) == IntTrunc(Fin(k * (n_obs + n_sim), n_obs))

\* k_adj = int(round(k * (1 + n_sim / float(n_obs))))
KAdj(k, n_obs, n_sim) == RoundHalfEven(Fin(k * (n_obs + n_sim), n_obs))

\* q = (nd + 1) / (N + 2)
PosteriorQ(nd, N) == Fin(nd + 1, N + 2)

\* 1 - rho - q * (1 - rho - rho / r)
ScoreDenominator(q, rho, r) ==
    FSub(FSub(One, rho), FMul(q, FSub(FSub(One, rho), FDiv(rho, r))))

\* variant: the score from the neighbours that are not simulated
DoubletScoreOfObserved(nd, N, rho, r) ==
    LET q == PosteriorQ(N - nd, N)
    IN  FDiv(FDiv(FMul(q, rho), r), ScoreDenominator(q, rho, r))

\* Ld = q * rho / r / (1 - rho - q * (1 - rho - rho / r))
DoubletScore(nd, N, rho, r) ==
    LET q == PosteriorQ(nd, N)
    IN  FDiv(FDiv(FMul(q, rho), r), ScoreDenominator(q, rho, r))

\* the square of se_Ld
DoubletErrorSq(nd, N, rho, r, se_rho) ==
    LET q == PosteriorQ(nd, N)
        D == ScoreDenominator(q, rho, r)
        se_q_sq == FDiv(FMul(q, FSub(One, q)), Fin(N + 3, 1))
        lead == FDiv(FDiv(FMul(q, rho), r), FMul(D, D))
        t1 == FMul(FDiv(se_q_sq, FMul(q, q)), FMul(FSub(One, rho), FSub(One, rho)))
        t2 == FMul(FDiv(FMul(se_rho, se_rho), FMul(rho, rho)),
                   FMul(FSub(One, q), FSub(One, q)))
    IN  FMul(FMul(lead, lead), FAdd(t1, t2))

\* the pooled points' counts of simulated neighbours
SimNeighborCounts(neighbors, n_obs) ==
    Array([i \in 1..Len(neighbors) |->
             Cardinality({x \in neighbors[i] : x >= n_obs})])

\* the parents of the simulated neighbours of observed cell iCell
NeighborParents(neighbors, parent_cells, n_obs, iCell) ==
    LET this_doub_neigh == {x - n_obs : x \in {x \in neighbors[iCell] : x >= n_obs}}
    IN  UNION {{parent_cells[d + 1][1], parent_cells[d + 1][2]} :
                d \in this_doub_neigh}

\* the score and the squared error of a point with nd simulated neighbours,
\* for nd = 0..upto, at position nd + 1
RECURSIVE ScoresByCount(_, _, _, _, _)
ScoresByCount(upto, N, rho, r, se_rho) ==
    IF upto < 0 THEN <<>>
    ELSE Append(ScoresByCount(upto - 1, N, rho, r, se_rho),
                [Ld |-> DoubletScore(upto, N, rho, r),
                 se_Ld |-> DoubletErrorSq(upto, N, rho, r, se_rho)])

\* Ld and se_Ld of every neighbour count under self's parameters
ScoreTable(self, k_adj) ==
    ScoresByCount(k_adj, k_adj, self.expected_doublet_rate,
                  FDiv(Fin(Len(self.manifold_.sim), 1),
                       Fin(Len(self.manifold_.obs), 1)),
                  self.stdev_doublet_rate)

\* variant: the simulated rows stacked before the observed ones
DoubLabelsSimFirst(n_obs, n_sim) ==
    [i \in 1..(n_obs + n_sim) |-> IF i <= n_sim THEN 1 ELSE 0]

\* doub_labels = concatenate((zeros(n_obs), ones(n_sim)))
DoubLabels(n_obs, n_sim) ==
    [i \in 1..(n_obs + n_sim) |-> IF i <= n_obs THEN 0 ELSE 1]

\* arr[doub_labels == label]
RECURSIVE Masked(_, _, _)
Masked(arr, doub_labels, label) ==
    IF arr = <<>> THEN <<>>
    ELSE LET rest == Masked(Tail(arr), Tail(doub_labels), label)
         IN  IF Head(doub_labels) = label THEN <<Head(arr)>> \o rest ELSE rest

\* np.array(rows) for a list of 1-d arrays of parents: a 2-d array when all
\* rows have one length; when they differ, an array of objects under
\* numpy < 1.24 and ValueError (inhomogeneous shape) from numpy 1.24 on
NumpyArray(rows) ==
    IF \A i, j \in 1..Len(rows) : Cardinality(rows[i]) = Cardinality(rows[j])
    THEN {[exc |-> "none", v |-> rows]}
    ELSE {[exc |-> "none", v |-> rows], [exc |-> "ValueError", v |-> <<>>]}

\* Ld and se_Ld of every pooled point, before they are split
PooledScores(self, neighbors, table) ==
    LET nd == SimNeighborCounts(neighbors, Len(self.manifold_.obs))
    IN  Array([i \in 1..Len(nd) |-> table[nd[i] + 1]])

\* the outcomes of self._nearest_neighbor_classifier(...) on the graph
\* neighbors: the object it leaves and the exception it raises, if any
NearestNeighborClassifier(self, neighbors, table, get_neighbor_parents) ==
    LET doub_labels == Array(DoubLabels(Len(self.manifold_.obs),
                                        Len(self.manifold_.sim)))
        n_obs == Len(Masked(doub_labels, doub_labels, 0))
        n_sim == Len(Masked(doub_labels, doub_labels, 1))
        pooled == PooledScores(self, neighbors, table)
        Ld == Array([i \in 1..Len(pooled) |-> pooled[i].Ld])
        se_Ld == Array([i \in 1..Len(pooled) |-> pooled[i].se_Ld])
        scored == [self EXCEPT
                     !.doublet_scores_obs_ = Val(Masked(Ld, doub_labels, 0)),
                     !.doublet_scores_sim_ = Val(Masked(Ld, doub_labels, 1)),
                     !.doublet_errors_obs_ = Val(Masked(se_Ld, doub_labels, 0)),
                     !.doublet_errors_sim_ = Val(Masked(se_Ld, doub_labels, 1))]
        neighbor_parents ==
            Array([iCell \in 1..n_obs |->
                     NeighborParents(neighbors, self.doublet_parents_.v, n_obs,
                                     iCell)])
    IN  IF get_neighbor_parents
        THEN {IF a.exc = "none"
              THEN [self |-> [scored EXCEPT
                                !.doublet_neighbor_parents_ = Val(a.v)],
                    exc |-> "none"]
              ELSE [self |-> scored, exc |-> a.exc] :
                 a \in NumpyArray(neighbor_parents)}
        ELSE {[self |-> scored, exc |-> "none"]}

\* the arguments of the get_knn_graph call made by the classifier
KnnCallOf(self) ==
    LET n_obs == Len(self.manifold_.obs)
        n_sim == Len(self.manifold_.sim)
    IN  [called |-> TRUE, k |-> KAdj(self.n_neighbors, n_obs, n_sim),
         n_points |-> n_obs + n_sim, random_seed |-> self.random_state,
         neighbors |-> <<>>]

\* the graphs the search may return to calculate_doublet_scores
GraphsFor(self, use_approx_neighbors) ==
    KnnGraphs(self.manifold_.obs \o self.manifold_.sim, KnnCallOf(self).k,
              use_approx_neighbors)

(***************************************************************************)
(* Scoring: every object starts simulated and embedded; each is scored     *)
(* once, with either neighbour search.                                     *)
(***************************************************************************)
NeighborArgs == {NoneInt, [tag |-> "val", v |-> 1], [tag |-> "val", v |-> 2]}
\* the rates passed to an object that scores: dyadic, so that the exact
\* squares of the errors stay small
DoubletRates == {Fin(1, 4), Fin(1, 2)}
StdevRate == Fin(1, 4)

\* the object after simulate_doublets() and set_manifold() on its embedding
Prepared(E, sim_doublet_ratio, n_neighbors, expected_doublet_rate, random_state) ==
    LET sim == SimulateDoublets(
                  Scrublet(E, NoneArr, sim_doublet_ratio, n_neighbors,
                           expected_doublet_rate, StdevRate, random_state),
                  NpRandomSeed(0), NoneNum, One)
    IN  [self |-> SetManifold(sim.self, Embed(AsFloat(sim.self.E_obs)),
                              Embed(AsFloat(sim.self.E_sim.v))),
         rng |-> sim.rng]

\* the ratios of the objects that score: those of simulate_doublets and
\* 1/4, which gives no doublet for fewer than 4 cells
ScoreRatios == PositiveRatios \cup {Fin(0, 1), Fin(1, 4)}

InitScore ==
    /\ mt \in Generators
    /\ \E n \in ObsSizes, k \in NeighborArgs, rho \in DoubletRates, rs \in Seeds :
         \E ratio \in FitRatios(n, ScoreRatios) :
            \E p \in {Prepared(DetMatrix(n), ratio, k, rho, rs)} :
               scrub = p.self /\ np_random = p.rng
    /\ ret = Returned(NoneArr)
    /\ knn_call = NoKnn
    /\ adata = NoAdata
    /\ ref = NoRef
    /\ last = NoCall

\* scrub.calculate_doublet_scores(use_approx_neighbors=approx,
\*                                get_doublet_neighbor_parents=get_parents),
\* on an object already scored only if rescoring
ScoreCall(approxes, rescoring) ==
    /\ scrub.manifold_.tag = "val"
    /\ adata.tag = "absent"
    /\ rescoring \/ scrub.doublet_scores_obs_.tag = "absent"
    /\ \E approx \in approxes :
         \E graphs \in {GraphsFor(scrub, approx)} :
            IF graphs = {}
            THEN /\ ret' = Raised("ValueError")
                 /\ knn_call' = KnnCallOf(scrub)
                 /\ \E get_parents \in BOOLEAN :
                       last' = [NoCall EXCEPT !.op = "calculate_doublet_scores",
                                              !.get_parents = get_parents]
                 /\ UNCHANGED scrub
            ELSE \E table \in {ScoreTable(scrub, KnnCallOf(scrub).k)} :
                 \E neighbors \in graphs, get_parents \in BOOLEAN :
                    \E res \in NearestNeighborClassifier(scrub, neighbors,
                                                         table, get_parents) :
                    \E out \in {res.self} :
                       /\ scrub' = out
                       /\ knn_call' = [KnnCallOf(scrub) EXCEPT
                                         !.neighbors = neighbors]
                       /\ ret' = IF res.exc = "none"
                                 THEN Returned(out.doublet_scores_obs_)
                                 ELSE Raised(res.exc)
                       /\ last' = [NoCall EXCEPT
                                     !.op = "calculate_doublet_scores",
                                     !.get_parents = get_parents,
                                     !.pooled = PooledScores(scrub, neighbors,
                                                             table)]
    /\ UNCHANGED <<np_random, mt, adata, ref>>

calculate_doublet_scores == ScoreCall(BOOLEAN, FALSE)

NextScore == calculate_doublet_scores

SpecScore == InitScore /\ [][NextScore]_vars

(***************************************************************************)
(* skimage.filters.threshold_minimum on the simulated scores: it raises    *)
(* unless it finds two maxima in the histogram of the scores, and a        *)
(* threshold it returns lies between two different scores.  An attribute   *)
(* that does not exist yet raises inside the same try block.               *)
(***************************************************************************)
SearchFailed(e) == [ok |-> FALSE, t |-> NaN, exc |-> e]
SearchFound(t) == [ok |-> TRUE, t |-> t, exc |-> "none"]

Range(x) == {x[i] : i \in 1..Len(x)}

Midpoint(a, b) == FDiv(FAdd(a, b), Fin(2, 1))

ThresholdMinimum(scores) ==
    IF scores.tag = "absent" THEN {SearchFailed("AttributeError")}
    ELSE IF \E x \in Range(scores.v) : ~IsFin(x) THEN {SearchFailed("ValueError")}
    ELSE {SearchFailed("RuntimeError")}
         \cup {SearchFound(Midpoint(a, b)) :
                 <<a, b>> \in {ab \in Range(scores.v) \X Range(scores.v) :
                                 FLess(ab[1], ab[2])}}

(***************************************************************************)
(* Scrublet.call_doublets                                                  *)
(***************************************************************************)
\* the search always run, whatever threshold was passed
SearchAlways(threshold) == TRUE

\* if threshold is None:
SearchNeeded(threshold) == threshold.tag = "None"

\* the prediction after a failed search as an array of False
NoPredictionAllFalse(self) ==
    Val([i \in 1..Len(self.E_obs) |-> FALSE])

\* except Exception: self.predicted_doublets_ = None
NoPrediction(self) == NoneArr

\* score >= threshold
AtLeast(score, threshold) == FGreater(score, threshold) \/ score = threshold

\* Ld_obs > threshold, elementwise
Exceeds(score, threshold) == FGreater(score, threshold)

\* variant: the size of the mask
CountAll(b) == Len(b)

\* (Ld > threshold).sum()
CountTrue(b) == Cardinality({i \in 1..Len(b) : b[i]})

\* variant: no doublet rate when no simulated doublet is detectable
OverallRateGuarded(detected, detectable) ==
    IF detectable = Fin(0, 1) THEN Fin(0, 1) ELSE FDiv(detected, detectable)

\* detected_doublet_rate_ / detectable_doublet_fraction_, a division of
\* numpy floats: inf or nan when the divisor is 0
OverallRate(detected, detectable) == FDiv(detected, detectable)

\* (Ld_obs - threshold) / se_obs as its sign and its square
ZScore(score, threshold, se_sq) ==
    LET diff == FSub(score, threshold)
    IN  [sign |-> Sign(diff), sq |-> FDiv(FMul(diff, diff), se_sq)]

\* variant: a failed search also forgets the scores it was run on
FailedSearchForgetsScores(self) ==
    [self EXCEPT !.predicted_doublets_ = NoPrediction(self),
                 !.doublet_scores_sim_ = NoneArr,
                 !.doublet_errors_sim_ = NoneArr]

\* the object after the except branch: only predicted_doublets_ is assigned
FailedSearch(self) == [self EXCEPT !.predicted_doublets_ = NoPrediction(self)]

\* self.call_doublets(threshold=threshold); found is what threshold_minimum
\* gives if it is called
CallDoublets(self, threshold, found) ==
    IF SearchNeeded(threshold) /\ ~found.ok
    THEN [self |-> FailedSearch(self),
          ret |-> Returned(NoPrediction(self)),
          searched |-> TRUE, failed |-> TRUE]
    ELSE IF self.doublet_scores_obs_.tag = "absent"
    THEN [self |-> self, ret |-> Raised("AttributeError"),
          searched |-> SearchNeeded(threshold), failed |-> FALSE]
    ELSE LET t == IF SearchNeeded(threshold) THEN found.t ELSE threshold.v
             Ld_obs == self.doublet_scores_obs_.v
             Ld_sim == self.doublet_scores_sim_.v
             se_obs == self.doublet_errors_obs_.v
             called == [i \in 1..Len(Ld_obs) |-> Exceeds(Ld_obs[i], t)]
             detected == FDiv(Fin(CountTrue(called), 1), Fin(Len(Ld_obs), 1))
             detectable ==
                FDiv(Fin(CountTrue([i \in 1..Len(Ld_sim) |->
                                      Exceeds(Ld_sim[i], t)]), 1),
                     Fin(Len(Ld_sim), 1))
         IN  [self |-> [self EXCEPT
                 !.predicted_doublets_ = Val(called),
                 !.z_scores_ = Val([i \in 1..Len(Ld_obs) |->
                                      ZScore(Ld_obs[i], t, se_obs[i])]),
                 !.threshold_ = Val(t),
                 !.detected_doublet_rate_ = Val(detected),
                 !.detectable_doublet_fraction_ = Val(detectable),
                 !.overall_doublet_rate_ = Val(OverallRate(detected, detectable))],
              ret |-> Returned(Val(called)),
              searched |-> SearchNeeded(threshold), failed |-> FALSE]

(***************************************************************************)
(* The life of one Scrublet object after its manifold is set: scored with  *)
(* the exact search and called, in any order and any number of times.      *)
(***************************************************************************)
\* thresholds a caller may pass: None, a score of an observed cell, 0, 1/2
ThresholdArgs(self) ==
    {NoneNum} \cup {Val(t) : t \in {Fin(0, 1), Fin(1, 2)}}
        \cup (IF self.doublet_scores_obs_.tag = "absent" THEN {}
              ELSE {Val(t) : t \in {x \in Range(self.doublet_scores_obs_.v) :
                                      IsFin(x)}})

calculate_doublet_scores_exact == ScoreCall({FALSE}, TRUE)

\* scrub.call_doublets(threshold=threshold)
call_doublets ==
    /\ adata.tag = "absent"
    /\ \E threshold \in ThresholdArgs(scrub) :
           \E found \in ThresholdMinimum(scrub.doublet_scores_sim_) :
               \E out \in {CallDoublets(scrub, threshold, found)} :
                   /\ scrub' = out.self
                   /\ ret' = out.ret
                   /\ last' = [NoCall EXCEPT !.op = "call_doublets",
                                             !.threshold = threshold,
                                             !.searched = out.searched,
                                             !.failed = out.failed]
                   /\ UNCHANGED <<np_random, mt, knn_call, adata, ref>>

(***************************************************************************)
(* The AnnData wrappers of __init__.py.  The matrix of an AnnData here is  *)
(* the part of the counts that the gene and cell filters and the variable  *)
(* gene selection keep.  The preprocessing of a matrix is a list of stage  *)
(* names in the order of the code's statements, applied by ApplyStages and *)
(* logged in last.obs_stages and last.sim_stages.                          *)
(***************************************************************************)
TargetSum == 1000000
DefaultRandomSeed == 0
DefaultRatio == Fin(2, 1)

\* the k-th smallest of the values x[i], i in ix
KthSmallest(x, ix, k) ==
    CHOOSE v \in {x[i] : i \in ix} :
        /\ Cardinality({i \in ix : FLess(x[i], v)}) < k
        /\ Cardinality({i \in ix : ~FLess(v, x[i])}) >= k

\* the median of the positive totals
MedianTotal(totals) ==
    LET ix == {i \in 1..Len(totals) : Sign(totals[i]) > 0}
        m == Cardinality(ix)
    IN  IF m = 0 THEN NaN
        ELSE IF m % 2 = 1 THEN KthSmallest(totals, ix, (m + 1) \div 2)
        ELSE Midpoint(KthSmallest(totals, ix, m \div 2),
                      KthSmallest(totals, ix, m \div 2 + 1))

\* pp.normalize_total(ad, target_sum=target_sum): every cell with counts is
\* scaled to the target total, the median total when target_sum is None
NormalizeTotal(X, target_sum) ==
    LET totals == Array([i \in 1..Len(X) |-> FSum(X[i])])
        target == IF target_sum.tag = "None" THEN MedianTotal(totals)
                  ELSE target_sum.v
    IN  Array([i \in 1..Len(X) |->
           IF Sign(totals[i]) = 0 THEN X[i]
           ELSE Array([g \in Genes |->
                         FDiv(FMul(X[i][g], target), totals[i])])])

\* the integer part of log2(m / d) for m >= d > 0, and of log2(1 + x) for a
\* finite x >= 0
RECURSIVE Log2Floor(_, _)
Log2Floor(m, d) == IF 2 * d <= m THEN 1 + Log2Floor(m, 2 * d) ELSE 0

IntLog2(x) == Log2Floor(x.n + x.d, x.d)

\* log1p of every entry, on the grid of the model's numbers: the logarithm
\* is taken to base 2 and cut to its integer part, which keeps it monotone,
\* 0 at 0 and not linear
Log1p(X) ==
    Array([i \in 1..Len(X) |->
       Array([g \in Genes |->
                IF IsFin(X[i][g]) /\ Sign(X[i][g]) >= 0
                THEN Fin(IntLog2(X[i][g]), 1) ELSE NaN])])

\* pipeline_normalize(self, postnorm_total=postnorm_total) on one matrix:
\* every row with counts is scaled by postnorm_total / its total count
PipelineNormalize(E, total_counts, postnorm_total) ==
    Array([i \in 1..Len(E) |->
       IF total_counts[i] = 0 THEN E[i]
       ELSE Array([g \in Genes |->
                     FDiv(FMul(E[i][g], postnorm_total),
                          Fin(total_counts[i], 1))])])

\* one preprocessing stage applied to the matrix X whose cells have the
\* total counts totals
ApplyStage(stage, X, totals) ==
    CASE stage = "normalize_total" -> NormalizeTotal(X, NoneNum)
      [] stage = "normalize_total_1e6" ->
            NormalizeTotal(X, Val(Fin(TargetSum, 1)))
      [] stage = "pipeline_normalize_1e6" ->
            PipelineNormalize(X, totals, Fin(TargetSum, 1))
      [] stage \in {"log1p", "pipeline_log_transform"} -> Log1p(X)

\* the stages applied one after the other
RECURSIVE ApplyStages(_, _, _)
ApplyStages(stages, X, totals) ==
    IF stages = <<>> THEN X
    ELSE ApplyStages(Tail(stages), ApplyStage(Head(stages), X, totals), totals)

\* what _run_scrublet does to ad_obs.X between the filters and
\* _scrublet_call_doublets, in the order of its statements
WrapperObsStages(log_transform) ==
    <<"normalize_total">> \o (IF log_transform THEN <<"log1p">> ELSE <<>>)
        \o <<"normalize_total_1e6">>

\* what _run_scrublet does to ad_sim.X, in the order of its statements
WrapperSimStages(log_transform) ==
    (IF log_transform THEN <<"log1p">> ELSE <<>>) \o <<"normalize_total_1e6">>

\* what scrub_doublets does to the observed and to the simulated matrix
\* between simulate_doublets and the scaling, in the order of its statements
PipelineStages(log_transform) ==
    <<"pipeline_normalize_1e6">>
        \o (IF log_transform THEN <<"pipeline_log_transform">> ELSE <<>>)

NoParameters ==
    [expected_doublet_rate |-> NaN, sim_doublet_ratio |-> NoneNum,
     n_neighbors |-> 0, random_state |-> 0]

NoUns ==
    [tag |-> "absent", doublet_scores_sim |-> <<>>, doublet_parents |-> <<>>,
     parameters |-> NoParameters, threshold |-> AbsentNum,
     doublet_neighbor_parents |-> AbsentArr]

\* an AnnData of raw counts X, not yet annotated
AnnData(X) ==
    [tag |-> "val", X |-> X, batch |-> AbsentArr, doublet_score |-> AbsentArr,
     predicted_doublet |-> AbsentArr, uns_scrublet |-> NoUns]

\* variant: the simulated AnnData carries no record of its ratio
SimParametersNone(sim_doublet_ratio) == NoneNum

\* adata_sim.uns["scrublet"]["parameters"]["sim_doublet_ratio"]
SimParameters(sim_doublet_ratio) == Val(sim_doublet_ratio)

\* scrublet_simulate_doublets(adata, layer="raw", sim_doublet_ratio=...,
\*     synthetic_doublet_umi_subsampling=..., random_seed=random_seed)
ScrubletSimulateDoublets(X, rng0, sim_doublet_ratio, synthetic_doublet_umi_subsampling, random_seed) ==
    LET sim == SimulateDoublets(
                  Scrublet(X, NoneArr, DefaultRatio, NoneInt, DefaultRate,
                           DefaultStdev, random_seed),
                  rng0, Val(sim_doublet_ratio), synthetic_doublet_umi_subsampling)
    IN  IF sim.exc # "none"
        THEN [exc |-> sim.exc, rng |-> sim.rng, X |-> <<>>, n_counts |-> <<>>,
              doublet_parents |-> <<>>, sim_doublet_ratio |-> NoneNum]
        ELSE [exc |-> "none", rng |-> sim.rng,
              X |-> sim.self.E_sim.v,
              n_counts |-> sim.self.total_counts_sim.v,
              doublet_parents |-> sim.self.doublet_parents_.v,
              sim_doublet_ratio |-> SimParameters(sim_doublet_ratio)]

\* the Scrublet object of _scrublet_call_doublets when it is about to score:
\* built on adata_obs.X, given the doublets' parents and the embedding of
\* the two normalised matrices
ScoringObject(X_obs, X_sim, doublet_parents, n_neighbors, expected_doublet_rate, stdev_doublet_rate, random_state) ==
    LET k == IF n_neighbors.tag = "None" THEN AutoNeighbors(Len(X_obs))
             ELSE n_neighbors.v
        made == Scrublet(X_obs, Val([i \in 1..Len(X_obs) |-> FSum(X_obs[i])]),
                         DefaultRatio, [tag |-> "val", v |-> k],
                         expected_doublet_rate, stdev_doublet_rate, random_state)
    IN  SetManifold([made EXCEPT !.doublet_parents_ = Val(doublet_parents)],
                    Embed(X_obs), Embed(X_sim))

\* every object has the attribute
AlwaysHasThreshold(self) == TRUE

\* hasattr(scrub, "threshold_")
HasThreshold(self) == self.threshold_.tag # "absent"

\* _scrublet_call_doublets from scrub.call_doublets on: object is its
\* Scrublet object after calculate_doublet_scores and found what
\* threshold_minimum gives if it is called
ScrubletCallDoublets(object, sim_doublet_ratio, expected_doublet_rate, get_doublet_neighbor_parents, threshold, random_state, found) ==
    LET called == CallDoublets(object, threshold, found)
        scrub_ == called.self
        n_obs == Len(object.E_obs)
    IN  [exc |-> called.ret.exc,
         searched |-> called.searched,
         failed |-> called.failed,
         doublet_score |-> scrub_.doublet_scores_obs_,
         predicted_doublet |->
            IF HasThreshold(scrub_) THEN scrub_.predicted_doublets_
            ELSE Val([i \in 1..n_obs |-> FALSE]),
         uns_scrublet |->
            [tag |-> "val",
             doublet_scores_sim |-> scrub_.doublet_scores_sim_.v,
             doublet_parents |-> object.doublet_parents_.v,
             parameters |->
                [expected_doublet_rate |-> expected_doublet_rate,
                 sim_doublet_ratio |-> sim_doublet_ratio,
                 n_neighbors |-> object.n_neighbors,
                 random_state |-> random_state],
             threshold |-> IF HasThreshold(scrub_) THEN scrub_.threshold_
                           ELSE AbsentNum,
             doublet_neighbor_parents |->
                IF get_doublet_neighbor_parents
                THEN scrub_.doublet_neighbor_parents_ ELSE AbsentArr]]

(***************************************************************************)
(* A session either drives one Scrublet object (adata is absent) or calls  *)
(* scrublet() once on an AnnData of raw counts.                            *)
(***************************************************************************)
WrapThresholds == {NoneNum, Val(Fin(1, 2)), Val(Fin(1, 4))}

\* the scaling step _scrublet_call_doublets runs, as the list of the pipeline
\* functions it calls
WrapperScaling(mean_center, normalize_variance) ==
    IF mean_center /\ normalize_variance THEN <<"zscore">>
    ELSE IF mean_center THEN <<"mean_center">>
    ELSE IF normalize_variance THEN <<"normalize_variance">>
    ELSE <<>>

\* the embedding _scrublet_call_doublets runs
WrapperEmbedding(mean_center) ==
    IF mean_center THEN <<"pca">> ELSE <<"truncated_svd">>

\* the record of a scrublet() call that reached the embedding
WrapperCall(batch_key, sim_doublet_ratio, rho, n_neighbors, random_state, mean_center, normalize_variance, copy, log_transform) ==
    [NoCall EXCEPT !.op = "scrublet",
                   !.log_transform = log_transform,
                   !.obs_stages = WrapperObsStages(log_transform),
                   !.sim_stages = WrapperSimStages(log_transform),
                   !.copy = copy,
                   !.batch_key = batch_key,
                   !.ratio = Val(sim_doublet_ratio),
                   !.expected_doublet_rate = rho,
                   !.n_neighbors = n_neighbors,
                   !.random_state = random_state,
                   !.mean_center = mean_center,
                   !.normalize_variance = normalize_variance,
                   !.stages = WrapperScaling(mean_center, normalize_variance)
                                 \o WrapperEmbedding(mean_center)]

\* batch_key as the caller may pass it: None or a column name; the AnnData of
\* a session has no column of that name
NoKey == [tag |-> "None", v |-> ""]
BatchKeys == {NoKey, [tag |-> "val", v |-> "batch"]}

\* adata.obs.keys(): the columns scrublet() has written
ObsKeys(ad) ==
    (IF ad.batch.tag = "val" THEN {"batch"} ELSE {})
        \cup (IF ad.doublet_score.tag = "val" THEN {"doublet_score"} ELSE {})
        \cup (IF ad.predicted_doublet.tag = "val" THEN {"predicted_doublet"}
              ELSE {})

\* variant: any batch_key taken as given
BatchKeyUnchecked(batch_key, obs_keys) == FALSE

\* batch_key is not None and batch_key not in adata.obs.keys()
BatchKeyMissing(batch_key, obs_keys) ==
    batch_key.tag = "val" /\ batch_key.v \notin obs_keys

InitWrap ==
    /\ mt \in Generators
    /\ \E n \in ObsSizes :
         /\ adata = AnnData(DetMatrix(n))
         /\ scrub = Scrublet(DetMatrix(n), NoneArr, DefaultRatio, NoneInt,
                             DefaultRate, DefaultStdev, 0)
    /\ \E s \in Seeds : np_random = NpRandomSeed(s)
    /\ ret = Returned(NoneArr)
    /\ knn_call = NoKnn
    /\ ref = NoRef
    /\ last = NoCall

\* variant: the results are written to the caller's object whatever copy is
ScrubletReturnInPlace(ad, out, copy) ==
    LET result == [ad EXCEPT !.doublet_score = out.doublet_score,
                             !.predicted_doublet = out.predicted_doublet,
                             !.uns_scrublet = out.uns_scrublet]
    IN  [adata |-> result,
         ret |-> IF copy THEN Returned(Val(result)) ELSE Returned(NoneArr)]

\* what scrublet() leaves in the caller's AnnData ad and what it returns,
\* out being the result of _scrublet_call_doublets on the working copy:
\* with copy the three results are written to adata.copy() and that object
\* is returned, without it they are written to ad and None is returned
ScrubletReturn(ad, out, copy) ==
    LET result == [ad EXCEPT !.doublet_score = out.doublet_score,
                             !.predicted_doublet = out.predicted_doublet,
                             !.uns_scrublet = out.uns_scrublet]
    IN  [adata |-> IF copy THEN ad ELSE result,
         ret |-> IF copy THEN Returned(Val(result)) ELSE Returned(NoneArr)]

\* scrublet(adata, batch_key=..., sim_doublet_ratio=...,
\*          expected_doublet_rate=..., synthetic_doublet_umi_subsampling=...,
\*          mean_center=..., normalize_variance=..., use_approx_neighbors=False,
\*          get_doublet_neighbor_parents=..., n_neighbors=..., threshold=...,
\*          random_state=..., copy=...), with <<mean_center,
\* normalize_variance>> from scalings, threshold from thresholds, copy from
\* copies and log_transform from logs
ScrubletCall(scalings, thresholds, copies, logs) ==
    /\ adata.tag = "val"
    /\ adata.batch.tag = "absent"
    /\ last.op = "__init__"
    /\ \E batch_key \in BatchKeys :
         IF BatchKeyMissing(batch_key, ObsKeys(adata))
         THEN /\ ret' = Raised("ValueError")
              /\ \E copy \in copies :
                    last' = [NoCall EXCEPT !.op = "scrublet",
                                           !.batch_key = batch_key,
                                           !.copy = copy]
              /\ UNCHANGED <<np_random, knn_call, adata>>
         ELSE \E sim_doublet_ratio \in
                 FitRatios(Len(adata.X), PositiveRatios \cup {Fin(0, 1)}),
               rate \in Rates, random_state \in Seeds :
              \E ad_sim \in {ScrubletSimulateDoublets(adata.X, np_random,
                                 sim_doublet_ratio, rate, DefaultRandomSeed)} :
              \E log_transform \in logs :
              \E X_obs \in {ApplyStages(WrapperObsStages(log_transform),
                                        AsFloat(adata.X), <<>>)},
                 X_sim \in {ApplyStages(WrapperSimStages(log_transform),
                                        AsFloat(ad_sim.X), <<>>)} :
              \E n_neighbors \in NeighborArgs, rho \in DoubletRates :
              \E object \in {ScoringObject(X_obs, X_sim, ad_sim.doublet_parents,
                                           n_neighbors, rho, StdevRate,
                                           random_state)} :
              \E graphs \in {GraphsFor(object, FALSE)} :
                 /\ np_random' = ad_sim.rng
                 /\ IF graphs = {}
                    THEN /\ ret' = Raised("ValueError")
                         /\ knn_call' = KnnCallOf(object)
                         /\ \E scaling \in scalings, copy \in copies :
                               last' = WrapperCall(batch_key, sim_doublet_ratio,
                                                   rho, n_neighbors,
                                                   random_state, scaling[1],
                                                   scaling[2], copy, log_transform)
                         /\ UNCHANGED adata
                    ELSE \E neighbors \in graphs, get_parents \in BOOLEAN :
                         \E res \in NearestNeighborClassifier(
                                          object, neighbors,
                                          ScoreTable(object, KnnCallOf(object).k),
                                          get_parents) :
                         IF res.exc # "none"
                         THEN /\ ret' = Raised(res.exc)
                              /\ knn_call' = [KnnCallOf(object) EXCEPT
                                                !.neighbors = neighbors]
                              /\ \E scaling \in scalings, copy \in copies :
                                    last' = [WrapperCall(batch_key,
                                                sim_doublet_ratio, rho,
                                                n_neighbors, random_state,
                                                scaling[1], scaling[2], copy, log_transform)
                                               EXCEPT !.get_parents = get_parents]
                              /\ UNCHANGED adata
                         ELSE
                         \E scored \in {res.self} :
                         \E threshold \in thresholds,
                            found \in ThresholdMinimum(scored.doublet_scores_sim_) :
                         \E out \in {ScrubletCallDoublets(
                                        scored, ad_sim.sim_doublet_ratio, rho,
                                        get_parents, threshold, random_state,
                                        found)} :
                         \E copy \in copies :
                         \E done \in {ScrubletReturn(adata, out, copy)} :
                            /\ adata' = done.adata
                            /\ ret' = done.ret
                            /\ knn_call' = [KnnCallOf(object) EXCEPT
                                              !.neighbors = neighbors]
                            /\ \E scaling \in scalings :
                                  last' = [WrapperCall(batch_key,
                                              sim_doublet_ratio, rho,
                                              n_neighbors, random_state,
                                              scaling[1], scaling[2], copy, log_transform)
                                             EXCEPT
                                               !.threshold = threshold,
                                               !.searched = out.searched,
                                               !.failed = out.failed,
                                               !.get_parents = get_parents]
    /\ UNCHANGED <<scrub, mt, ref>>

\* scrublet() with the default mean_center=True, normalize_variance=True,
\* copy=False
scrublet == ScrubletCall({<<TRUE, TRUE>>}, WrapThresholds, {FALSE}, {FALSE})

Init == InitScore \/ InitWrap

Next == calculate_doublet_scores_exact \/ call_doublets \/ scrublet

Spec == Init /\ [][Next]_vars

(***************************************************************************)
(* Scrublet.scrub_doublets, the whole pipeline on one object, next to      *)
(* scrublet() with every choice of mean_center, normalize_variance and     *)
(* log_transform.  The gene filter keeps every gene, the search is         *)
(* exact.  The scaling and embedding functions are not in src/: the calls  *)
(* made to them are logged in last.stages, and the coordinates are those   *)
(* of Embed whichever was called.                                          *)
(***************************************************************************)
\* the scaling step scrub_doublets runs, as the list of the pipeline
\* functions it calls
PipelineScaling(mean_center, normalize_variance) ==
    IF mean_center /\ normalize_variance THEN <<"zscore">>
    ELSE IF mean_center THEN <<"mean_center">>
    ELSE IF normalize_variance THEN <<"normalize_variance">>
    ELSE <<>>

\* variant: PCA whatever mean_center is
PipelineEmbeddingAlwaysPCA(mean_center) == <<"pca">>

\* the embedding scrub_doublets runs
PipelineEmbedding(mean_center) ==
    IF mean_center THEN <<"pca">> ELSE <<"truncated_svd">>

\* the objects Scrublet(counts_matrix, sim_doublet_ratio=ratio,
\* n_neighbors=k, ...) makes of matrices of up to MaxCells cells; the ratio
\* is the default where no ratio keeps the pool within MaxPool
MaxCells == 26

InitPipe ==
    /\ mt \in Generators
    /\ \E n \in 1..MaxCells, k \in NeighborArgs, rho \in DoubletRates, rs \in Seeds :
         \E ratio \in IF n \in ObsSizes
                       THEN FitRatios(n, PositiveRatios \cup {Fin(0, 1)})
                       ELSE {DefaultRatio} :
            /\ scrub = Scrublet(DetMatrix(n), NoneArr, ratio, k, rho, StdevRate,
                                rs)
            /\ last = [NoCall EXCEPT !.n_neighbors = k]
    /\ np_random = NpRandomSeed(0)
    /\ ret = Returned(NoneArr)
    /\ knn_call = NoKnn
    /\ adata = NoAdata
    /\ ref = NoRef

\* the record of a scrub_doublets call that reached the embedding
PipelineCall(rate, mean_center, normalize_variance, get_parents, log_transform) ==
    [NoCall EXCEPT !.op = "scrub_doublets",
                   !.log_transform = log_transform,
                   !.obs_stages = PipelineStages(log_transform),
                   !.sim_stages = PipelineStages(log_transform),
                   !.rate = rate,
                   !.get_parents = get_parents,
                   !.mean_center = mean_center,
                   !.normalize_variance = normalize_variance,
                   !.stages = PipelineScaling(mean_center, normalize_variance)
                                 \o PipelineEmbedding(mean_center)]

\* scrub.scrub_doublets(synthetic_doublet_umi_subsampling=rate,
\*     use_approx_neighbors=False, get_doublet_neighbor_parents=get_parents,
\*     mean_center=mean_center, normalize_variance=normalize_variance,
\*     log_transform=log_transform),
\* on an object that has no scores yet and whose pool is within MaxPool
scrub_doublets ==
    /\ adata.tag = "absent"
    /\ scrub.doublet_scores_obs_.tag = "absent"
    /\ Len(scrub.E_obs) + NSim(Len(scrub.E_obs), scrub.sim_doublet_ratio)
          <= MaxPool
    /\ \E rate \in Rates :
       \E sim \in {SimulateDoublets([scrub EXCEPT !.E_sim = NoneArr], np_random,
                                    Val(scrub.sim_doublet_ratio), rate)} :
         /\ np_random' = sim.rng
         /\ IF sim.exc # "none"
            THEN /\ scrub' = sim.self
                 /\ ret' = Raised(sim.exc)
                 /\ last' = [NoCall EXCEPT !.op = "scrub_doublets",
                                           !.rate = rate]
                 /\ UNCHANGED knn_call
            ELSE
            \E log_transform \in BOOLEAN :
            \E E_obs_norm \in {ApplyStages(PipelineStages(log_transform),
                                           AsFloat(sim.self.E_obs),
                                           sim.self.total_counts_obs)},
               E_sim_norm \in {ApplyStages(PipelineStages(log_transform),
                                           AsFloat(sim.self.E_sim.v),
                                           sim.self.total_counts_sim.v)} :
            \E embedded \in {SetManifold(sim.self, Embed(E_obs_norm),
                                         Embed(E_sim_norm))} :
            \E graphs \in {GraphsFor(embedded, FALSE)} :
               IF graphs = {}
               THEN /\ scrub' = embedded
                    /\ ret' = Raised("ValueError")
                    /\ knn_call' = KnnCallOf(embedded)
                    /\ \E mean_center, normalize_variance, get_parents \in BOOLEAN :
                          last' = PipelineCall(rate, mean_center,
                                               normalize_variance, get_parents,
                                               log_transform)
               ELSE
               \E neighbors \in graphs, get_parents \in BOOLEAN :
               \E res \in NearestNeighborClassifier(
                              embedded, neighbors,
                              ScoreTable(embedded, KnnCallOf(embedded).k),
                              get_parents) :
                  /\ knn_call' = [KnnCallOf(embedded) EXCEPT
                                    !.neighbors = neighbors]
                  /\ IF res.exc # "none"
                     THEN /\ scrub' = res.self
                          /\ ret' = Raised(res.exc)
                          /\ \E mean_center, normalize_variance \in BOOLEAN :
                                last' = PipelineCall(rate, mean_center,
                                                     normalize_variance,
                                                     get_parents, log_transform)
                     ELSE
                     \E found \in ThresholdMinimum(res.self.doublet_scores_sim_) :
                     \E out \in {CallDoublets(res.self, NoneNum, found)} :
                        /\ scrub' = out.self
                        /\ ret' = Returned(Val(<<out.self.doublet_scores_obs_,
                                                 out.self.predicted_doublets_>>))
                        /\ \E mean_center, normalize_variance \in BOOLEAN :
                              last' = [PipelineCall(rate, mean_center,
                                                    normalize_variance,
                                                    get_parents, log_transform)
                                         EXCEPT !.searched = out.searched,
                                                !.failed = out.failed]
    /\ UNCHANGED <<mt, adata, ref>>

\* scrublet(adata, mean_center=..., normalize_variance=...,
\*          log_transform=..., threshold=None)
scrublet_scaled == ScrubletCall(BOOLEAN \X BOOLEAN, {NoneNum}, {FALSE}, BOOLEAN)

InitPipeline == InitPipe \/ InitWrap

NextPipeline == scrub_doublets \/ scrublet_scaled

SpecPipeline == InitPipeline /\ [][NextPipeline]_vars

(***************************************************************************)
(* The score formula on its own: every expected doublet rate k/RateSteps   *)
(* in (0, 1), every ratio n_sim/n_obs of two pool sizes and every adjusted *)
(* neighbour count N up to MaxPool; one step scores every count nd in 0..N.*)
(***************************************************************************)
RateSteps == 10
ScoreRates == {Fin(i, RateSteps) : i \in 1..(RateSteps - 1)}
SimToObs == {Fin(n_sim, n_obs) : n_sim \in 1..MaxPool, n_obs \in 1..MaxPool}

InitLd ==
    /\ \E rho \in ScoreRates, r \in SimToObs, N \in 0..MaxPool :
          last = [op |-> "Ld", rho |-> rho, r |-> r, N |-> N]
    /\ scrub = Scrublet(DetMatrix(1), NoneArr, DefaultRatio, NoneInt,
                        DefaultRate, DefaultStdev, 0)
    /\ np_random = NpRandomSeed(0)
    /\ mt = CHOOSE g \in Generators : TRUE
    /\ ret = Returned(NoneArr)
    /\ knn_call = NoKnn
    /\ adata = NoAdata
    /\ ref = NoRef

\* Ld for nd = 0..N, at position nd + 1
score_neighbor_counts ==
    /\ last.op = "Ld"
    /\ ret.v.tag = "None"
    /\ ret' = Returned(Val(Array([i \in 1..(last.N + 1) |->
                 DoubletScore(i - 1, last.N, last.rho, last.r)])))
    /\ UNCHANGED <<scrub, np_random, mt, knn_call, adata, ref, last>>

NextLd == score_neighbor_counts

SpecLd == InitLd /\ [][NextLd]_vars

(***************************************************************************)
(* Properties of the doublet simulation.                                   *)
(***************************************************************************)
Simulated == last.op = "simulate_doublets"
NObs == Len(scrub.E_obs)
Parents == scrub.doublet_parents_.v
Positive(x) == IsFin(x) /\ x.n > 0

\* C1: for n_obs > 0 and ratio > 0 simulate_doublets completes and produces
\* exactly floor(n_obs * ratio) doublets: doublet_parents_ has that many rows
\* of two entries, each an index in [0, n_obs).
C1_SimulatedCount ==
    (Simulated /\ Positive(scrub.sim_doublet_ratio)) =>
        /\ ret.exc = "none"
        /\ scrub.doublet_parents_.tag = "val"
        /\ LET m == Len(Parents)
               ratio == scrub.sim_doublet_ratio
           IN  /\ m * ratio.d <= NObs * ratio.n
               /\ NObs * ratio.n < (m + 1) * ratio.d
               /\ Len(scrub.E_sim.v) = m
               /\ Len(scrub.total_counts_sim.v) = m
               /\ \A j \in 1..m :
                    /\ Len(Parents[j]) = 2
                    /\ \A c \in 1..2 : Parents[j][c] \in 0..(NObs - 1)

\* n_obs * ratio is no integer, and two different cells are paired
C1_Witness ==
    /\ Simulated /\ ret.exc = "none"
    /\ (NObs * scrub.sim_doublet_ratio.n) % scrub.sim_doublet_ratio.d # 0
    /\ \E j \in 1..Len(Parents) : Parents[j][1] # Parents[j][2]

\* C8: without thinning (synthetic_doublet_umi_subsampling >= 1) every
\* synthetic doublet's count row is the element-wise sum of its two parents'
\* rows and its total is the sum of its parents' totals.
C8_ExactPairSum ==
    (Simulated /\ ret.exc = "none" /\ ~FLess(last.rate, Fin(1, 1))) =>
        \A j \in 1..Len(Parents) :
            LET a == Parents[j][1] + 1
                b == Parents[j][2] + 1
            IN  /\ \A g \in Genes :
                     scrub.E_sim.v[j][g] = scrub.E_obs[a][g] + scrub.E_obs[b][g]
                /\ scrub.total_counts_sim.v[j] =
                     scrub.total_counts_obs[a] + scrub.total_counts_obs[b]

\* two different parents with different rows, totals beyond the row sums
C8_Witness ==
    /\ Simulated /\ ret.exc = "none" /\ ~FLess(last.rate, Fin(1, 1))
    /\ \E j \in 1..Len(Parents) :
         /\ scrub.E_obs[Parents[j][1] + 1] # scrub.E_obs[Parents[j][2] + 1]
         /\ SumSeq(scrub.E_obs[Parents[j][2] + 1]) > 0
         /\ scrub.total_counts_sim.v[j] > SumSeq(scrub.E_sim.v[j])

\* C9: with thinning (rate < 1) every synthetic doublet's stored total is at
\* most the sum of its parents' totals and equals the row sum of the thinned
\* synthetic matrix.
C9_ThinnedTotals ==
    (Simulated /\ ret.exc = "none" /\ FLess(last.rate, Fin(1, 1))) =>
        \A j \in 1..Len(Parents) :
            /\ scrub.total_counts_sim.v[j] <=
                 scrub.total_counts_obs[Parents[j][1] + 1]
                 + scrub.total_counts_obs[Parents[j][2] + 1]
            /\ scrub.total_counts_sim.v[j] = SumSeq(scrub.E_sim.v[j])

\* a thinned doublet that lost counts and kept some
C9_Witness ==
    /\ Simulated /\ ret.exc = "none" /\ FLess(last.rate, Fin(1, 1))
    /\ \E j \in 1..Len(Parents) :
         /\ scrub.total_counts_sim.v[j] > 0
         /\ scrub.total_counts_sim.v[j] <
              SumSeq(scrub.E_obs[Parents[j][1] + 1])
              + SumSeq(scrub.E_obs[Parents[j][2] + 1])

\* C7: a simulation with the same observed matrix, totals, ratio, subsampling
\* rate and random_state as an earlier one yields the same doublet_parents_,
\* synthetic counts and totals, whatever happened in between.
SameInputsAsRef ==
    /\ ref.valid /\ Simulated /\ ret.exc = "none"
    /\ ref.E_obs = scrub.E_obs
    /\ ref.total_counts_obs = scrub.total_counts_obs
    /\ ref.ratio = scrub.sim_doublet_ratio
    /\ ref.rate = last.rate
    /\ ref.random_state = scrub.random_state

C7_Deterministic ==
    SameInputsAsRef =>
        /\ scrub.doublet_parents_.v = ref.doublet_parents_
        /\ scrub.E_sim.v = ref.E_sim
        /\ scrub.total_counts_sim.v = ref.total_counts_sim

\* a later call on a new object, after other draws, with thinning
C7_Witness ==
    /\ SameInputsAsRef /\ ~ref.fresh /\ ref.other_use /\ ref.new_object
    /\ Len(ref.doublet_parents_) >= 2
    /\ FLess(last.rate, Fin(1, 1))
    /\ np_random.seed = scrub.random_state

(***************************************************************************)
(* Properties of the scoring.                                              *)
(***************************************************************************)
ManifoldObs == Len(scrub.manifold_.obs)
ManifoldSim == Len(scrub.manifold_.sim)

\* C10: the neighbour count handed to the neighbour search is
\* round(k * (1 + n_sim / n_obs)), n_obs and n_sim being the row counts of
\* the two manifolds: the integer nearest to k * (n_obs + n_sim) / n_obs,
\* the even one at a tie; and it is at least k when there are doublets.
C10_AdjustedNeighbors ==
    knn_call.called =>
        LET k == scrub.n_neighbors
            exact == k * (ManifoldObs + ManifoldSim)
            off == Abs(knn_call.k * ManifoldObs - exact)
        IN  /\ 2 * off <= ManifoldObs
            /\ (2 * off = ManifoldObs => knn_call.k % 2 = 0)
            /\ knn_call.n_points = ManifoldObs + ManifoldSim
            /\ (ManifoldSim > 0 => knn_call.k >= k)

\* a search was made with doublets present, a scaled count that is not an
\* integer, and more neighbours than k
C10_Witness ==
    /\ knn_call.called
    /\ ManifoldSim > 0
    /\ (scrub.n_neighbors * (ManifoldObs + ManifoldSim)) % ManifoldObs # 0
    /\ knn_call.k > scrub.n_neighbors
    /\ scrub.doublet_scores_obs_.tag = "val"

(***************************************************************************)
(* Properties of doublet calling.                                          *)
(***************************************************************************)
Called == last.op = "call_doublets"

\* x > t for a score x and a finite threshold t; a nan score is above nothing
Above(x, t) == x.k = "inf" \/ (x.k = "fin" /\ x.n * t.d > t.n * x.d)

\* the observed cells' scores thresholded at t by hand
ManualCalls(t) ==
    [i \in 1..Len(scrub.doublet_scores_obs_.v) |->
        Above(scrub.doublet_scores_obs_.v[i], t)]

\* scrublet() has returned
Wrapped == last.op = "scrublet" /\ ret.exc = "none"

Uns == adata.uns_scrublet

\* the doublet_score column thresholded at t by hand
ManualColumn(t) ==
    [i \in 1..Len(adata.doublet_score.v) |-> Above(adata.doublet_score.v[i], t)]

\* C3: whenever call_doublets succeeds, with a threshold given or found,
\* predicted_doublets_[i] is doublet_scores_obs_[i] > threshold_ for every
\* observed cell, strictly: a cell scoring exactly threshold_ is not called;
\* and so is the predicted_doublet column that scrublet() returns.
C3_StrictThreshold ==
    /\ (Wrapped /\ ~last.failed) =>
          /\ Uns.threshold.tag = "val"
          /\ adata.predicted_doublet.tag = "val"
          /\ adata.predicted_doublet.v = ManualColumn(Uns.threshold.v)
    /\ (Called /\ ret.exc = "none" /\ ~last.failed) =>
        /\ scrub.threshold_.tag = "val"
        /\ scrub.predicted_doublets_.tag = "val"
        /\ scrub.predicted_doublets_.v = ManualCalls(scrub.threshold_.v)
        /\ \A i \in 1..Len(scrub.E_obs) :
              scrub.doublet_scores_obs_.v[i] = scrub.threshold_.v
                 => ~scrub.predicted_doublets_.v[i]

\* a successful call with one cell scoring exactly the threshold and not
\* called, and another cell called
C3_Witness ==
    /\ Called /\ ret.exc = "none" /\ ~last.failed
    /\ \E i, j \in 1..Len(scrub.E_obs) :
          /\ scrub.doublet_scores_obs_.v[i] = scrub.threshold_.v
          /\ ~scrub.predicted_doublets_.v[i]
          /\ scrub.predicted_doublets_.v[j]

\* C4: when the automatic search fails in call_doublets(threshold=None), no
\* exception reaches the caller, the call returns None and
\* predicted_doublets_ is None, not an array.
C4_FailureReturnsNone ==
    (Called /\ last.failed) =>
        /\ last.threshold.tag = "None"
        /\ ret.exc = "none"
        /\ ret.v.tag = "None"
        /\ scrub.predicted_doublets_.tag = "None"

\* the search failed on an object that has simulated scores, after an
\* earlier call had made a prediction
C4_Witness ==
    /\ Called /\ last.failed /\ last.threshold.tag = "None"
    /\ scrub.doublet_scores_sim_.tag = "val"
    /\ scrub.threshold_.tag = "val"
    /\ scrub.predicted_doublets_.tag = "None"

C6_OneSeed ==
    Wrapped =>
        /\ np_random.seed = last.random_state
        /\ Uns.parameters.random_state = last.random_state

(***************************************************************************)
(* Properties of the score formula.                                        *)
(***************************************************************************)
\* the scores just computed from the neighbour counts 0..N
ScoredCounts == last.op = "Ld" /\ ret.exc = "none" /\ ret.v.tag = "val"

\* C11: for every rho in (0, 1), every r > 0 and every N >= 0, the score of
\* each nd in 0..N is a non-negative number, and the score of nd + 1 is never
\* below the score of nd
C11_ScoreMonotone ==
    ScoredCounts =>
        LET Ld == ret.v.v
        IN  /\ Len(Ld) = last.N + 1
            /\ \A i \in 1..Len(Ld) :
                  IsFin(Ld[i]) /\ ~FLess(Ld[i], Fin(0, 1))
            /\ \A i \in 1..(Len(Ld) - 1) : ~FLess(Ld[i + 1], Ld[i])

C11_Witness ==
    /\ ScoredCounts
    /\ last.N >= 2
    /\ FLess(last.r, One)
    /\ FLess(ret.v.v[1], ret.v.v[last.N + 1])

(***************************************************************************)
(* Properties of the scores.                                               *)
(***************************************************************************)
\* calculate_doublet_scores has returned
Scored == last.op = "calculate_doublet_scores" /\ ret.exc = "none"

NSimulated == Len(Parents)

\* C12: after calculate_doublet_scores the observed scores and errors have
\* n_obs entries and the simulated ones n_sim; the observed arrays hold the
\* values of pooled points 0..n_obs-1 and the simulated arrays those of
\* pooled points n_obs..n_obs+n_sim-1, in pooled order (last.pooled holds the
\* pooled points' values as they are before the split)
C12_PooledSplit ==
    Scored =>
        /\ Len(scrub.doublet_scores_obs_.v) = NObs
        /\ Len(scrub.doublet_errors_obs_.v) = NObs
        /\ Len(scrub.doublet_scores_sim_.v) = NSimulated
        /\ Len(scrub.doublet_errors_sim_.v) = NSimulated
        /\ Len(last.pooled) = NObs + NSimulated
        /\ \A i \in 1..NObs :
              /\ scrub.doublet_scores_obs_.v[i] = last.pooled[i].Ld
              /\ scrub.doublet_errors_obs_.v[i] = last.pooled[i].se_Ld
        /\ \A i \in 1..NSimulated :
              /\ scrub.doublet_scores_sim_.v[i] = last.pooled[NObs + i].Ld
              /\ scrub.doublet_errors_sim_.v[i] = last.pooled[NObs + i].se_Ld

C12_Witness ==
    /\ Scored
    /\ NSimulated > 0
    /\ NSimulated # NObs
    /\ \E i, j \in 1..NObs :
          scrub.doublet_scores_obs_.v[i] # scrub.doublet_scores_obs_.v[j]
    /\ \E i \in 1..NObs, j \in 1..NSimulated :
          scrub.doublet_scores_obs_.v[i] # scrub.doublet_scores_sim_.v[j]

(***************************************************************************)
(* Properties of the rates and z-scores of call_doublets.                  *)
(***************************************************************************)
\* call_doublets has returned an array of calls
CalledOk == Called /\ ret.exc = "none" /\ ~last.failed

\* the fraction of the scores that lie above t; nan for no scores
FractionAbove(scores, t) ==
    IF Len(scores) = 0 THEN NaN
    ELSE Fin(Cardinality({i \in 1..Len(scores) : Above(scores[i], t)}),
             Len(scores))

\* C13: on a successful call_doublets, detected_doublet_rate_ is the fraction
\* of observed cells scoring above the threshold, detectable_doublet_fraction_
\* the fraction of simulated doublets scoring above it,
\* overall_doublet_rate_ their quotient, and z_scores_[i] is
\* (doublet_scores_obs_[i] - threshold) / doublet_errors_obs_[i]
C13_RatesAndZScores ==
    CalledOk =>
        LET t == scrub.threshold_.v
            detected == scrub.detected_doublet_rate_.v
            detectable == scrub.detectable_doublet_fraction_.v
            overall == scrub.overall_doublet_rate_.v
            z == scrub.z_scores_.v
        IN  /\ detected = FractionAbove(scrub.doublet_scores_obs_.v, t)
            /\ detectable = FractionAbove(scrub.doublet_scores_sim_.v, t)
            /\ (IsFin(detectable) /\ detectable.n > 0) =>
                  /\ IsFin(overall)
                  /\ overall.n * detected.d * detectable.n
                        = detected.n * detectable.d * overall.d
            /\ Len(z) = NObs
            /\ \A i \in 1..NObs :
                  LET diff == FSub(scrub.doublet_scores_obs_.v[i], t)
                  IN  /\ z[i].sign = Sign(diff)
                      /\ z[i].sq = FDiv(FMul(diff, diff),
                                        scrub.doublet_errors_obs_.v[i])

\* a successful call that detects observed cells and some but not all of
\* the simulated doublets, in different fractions
C13_Witness ==
    /\ CalledOk
    /\ FLess(Fin(0, 1), scrub.detected_doublet_rate_.v)
    /\ FLess(Fin(0, 1), scrub.detectable_doublet_fraction_.v)
    /\ FLess(scrub.detectable_doublet_fraction_.v, One)
    /\ scrub.detected_doublet_rate_.v # scrub.detectable_doublet_fraction_.v
    /\ IsFin(scrub.overall_doublet_rate_.v)
    /\ \E i \in 1..NObs :
          scrub.z_scores_.v[i].sign = 1 /\ IsFin(scrub.z_scores_.v[i].sq)

\* C14: when no simulated doublet scores above the threshold
\* (detectable_doublet_fraction_ = 0) call_doublets still completes,
\* predicted_doublets_ and threshold_ are set, and overall_doublet_rate_ is
\* inf or nan, never a finite number
C14_UndefinedOverallRate ==
    (Called /\ ~last.failed /\ ret.exc = "none"
        /\ scrub.detectable_doublet_fraction_.tag = "val"
        /\ scrub.detectable_doublet_fraction_.v = Fin(0, 1)) =>
        /\ scrub.overall_doublet_rate_.tag = "val"
        /\ scrub.overall_doublet_rate_.v.k \in {"inf", "nan"}
        /\ scrub.predicted_doublets_.tag = "val"
        /\ scrub.predicted_doublets_.v = ManualCalls(scrub.threshold_.v)
        /\ scrub.threshold_.tag = "val"
        /\ ret.v = scrub.predicted_doublets_

\* no simulated doublet above the threshold, with an observed cell above it
\* (inf)
C14_Witness ==
    /\ CalledOk
    /\ scrub.detectable_doublet_fraction_.v = Fin(0, 1)
    /\ scrub.overall_doublet_rate_.v.k = "inf"

\* no simulated doublet and no observed cell above the threshold (nan)
C14_WitnessNaN ==
    /\ CalledOk
    /\ scrub.detectable_doublet_fraction_.v = Fin(0, 1)
    /\ scrub.overall_doublet_rate_.v.k = "nan"

(***************************************************************************)
(* Properties of the error handling.                                       *)
(***************************************************************************)
\* C15: a simulate_doublets call with sim_doublet_ratio <= 0 raises an error
\* to its caller and changes no field of the Scrublet object
C15_NonPositiveRatioRejected ==
    [][(/\ last'.op = "simulate_doublets"
        /\ last'.ratio.tag = "val"
        /\ ~Positive(last'.ratio.v))
            => (ret'.exc # "none" /\ scrub' = scrub)]_vars

\* C16: scrublet() with a batch_key that is not a column of adata.obs raises
\* ValueError before any batch is processed: no simulation and no neighbour
\* search runs, and the caller's adata (obs and uns) is unchanged
C16_MissingBatchKey ==
    [][(/\ last'.op = "scrublet"
        /\ last'.batch_key.tag = "val"
        /\ last'.batch_key.v \notin ObsKeys(adata))
            => /\ ret' = Raised("ValueError")
               /\ adata' = adata
               /\ np_random' = np_random
               /\ knn_call' = knn_call]_vars

C16_Witness ==
    /\ last.op = "scrublet"
    /\ last.batch_key = [tag |-> "val", v |-> "batch"]
    /\ ret.exc = "ValueError"
    /\ adata.tag = "val"
    /\ adata.uns_scrublet.tag = "absent"
    /\ adata.doublet_score.tag = "absent"

(***************************************************************************)
(* Properties of the neighbour parents.                                    *)
(***************************************************************************)
\* the distinct parents of the simulated doublets among the neighbours of
\* observed cell i (1-based) in the graph the search returned, n observed
\* cells, parents being the rows of doublet_parents_
ParentsOfNeighbors(i, n, parents) ==
    {c \in 0..(n - 1) :
        \E x \in knn_call.neighbors[i] :
            x >= n /\ c \in {parents[x - n + 1][1], parents[x - n + 1][2]}}

\* one entry per observed cell, entry i being ParentsOfNeighbors(i)
IsNeighborParents(arr, n, parents) ==
    /\ arr.tag = "val"
    /\ Len(arr.v) = n
    /\ \A i \in 1..n : arr.v[i] = ParentsOfNeighbors(i, n, parents)

\* C17: after scoring with get_doublet_neighbor_parents enabled,
\* doublet_neighbor_parents_ (and uns['scrublet']['doublet_neighbor_parents']
\* after scrublet()) has one entry per observed cell, entry i being exactly
\* the set of distinct parents, each in [0, n_obs), of the simulated doublets
\* among cell i's k_adj neighbours, empty when it has none
C17_NeighborParents ==
    /\ (/\ last.op = "calculate_doublet_scores"
        /\ last.get_parents
        /\ knn_call.neighbors # <<>>) =>
            /\ ret.exc = "none"
            /\ IsNeighborParents(scrub.doublet_neighbor_parents_, NObs, Parents)
    /\ (/\ last.op = "scrublet"
        /\ last.get_parents
        /\ knn_call.neighbors # <<>>) =>
            /\ ret.exc = "none"
            /\ Uns.tag = "val"
            /\ IsNeighborParents(Uns.doublet_neighbor_parents,
                                 Len(adata.X), Uns.doublet_parents)

(***************************************************************************)
(* Properties of re-calling.                                               *)
(***************************************************************************)
\* the fields call_doublets derives from the threshold
ThresholdDerived ==
    {"predicted_doublets_", "z_scores_", "threshold_", "detected_doublet_rate_",
     "detectable_doublet_fraction_", "overall_doublet_rate_"}

\* C18: once scores exist, a call_doublets call, successful or failed, leaves
\* doublet_scores_obs_, doublet_scores_sim_, doublet_errors_obs_,
\* doublet_errors_sim_ and doublet_parents_ as they were; the only fields it
\* may replace are the threshold-derived ones
C18_CallKeepsScores ==
    [][(last'.op = "call_doublets" /\ scrub.doublet_scores_obs_.tag = "val")
          => /\ scrub'.doublet_scores_obs_ = scrub.doublet_scores_obs_
             /\ scrub'.doublet_scores_sim_ = scrub.doublet_scores_sim_
             /\ scrub'.doublet_errors_obs_ = scrub.doublet_errors_obs_
             /\ scrub'.doublet_errors_sim_ = scrub.doublet_errors_sim_
             /\ scrub'.doublet_parents_ = scrub.doublet_parents_
             /\ \A f \in (DOMAIN scrub) \ ThresholdDerived :
                   scrub'[f] = scrub[f]]_vars

\* a failed call on an object that has scores and the threshold of an
\* earlier successful call
C18_Witness ==
    /\ Called /\ last.failed
    /\ scrub.doublet_scores_obs_.tag = "val"
    /\ scrub.doublet_scores_sim_.tag = "val"
    /\ scrub.threshold_.tag = "val"
    /\ scrub.predicted_doublets_.tag = "None"

\* a successful call with a given threshold that marks some observed cell
C18_WitnessSuperseded ==
    /\ CalledOk
    /\ last.threshold.tag = "val"
    /\ scrub.threshold_ = last.threshold
    /\ scrub.doublet_scores_sim_.tag = "val"
    /\ \E i \in 1..NObs : scrub.predicted_doublets_.v[i]

(***************************************************************************)
(* Properties of the pipeline's stages.                                    *)
(***************************************************************************)
IsEmbedding(stage) == stage \in {"pca", "truncated_svd"}
IsScaling(stage) == stage \in {"zscore", "mean_center", "normalize_variance"}

C19_WitnessWrapper ==
    /\ Wrapped
    /\ last.mean_center /\ ~last.normalize_variance
    /\ last.stages = <<"mean_center", "pca">>
    /\ adata.doublet_score.tag = "val"

(***************************************************************************)
(* Properties of the neighbour count.                                      *)
(***************************************************************************)
\* m is 0.5 * sqrt(n) rounded to the nearest integer, a tie to the even one
IsRoundedHalfRoot(m, n) ==
    /\ m >= 0
    /\ (m > 0 => (2 * m - 1) * (2 * m - 1) <= n)
    /\ n <= (2 * m + 1) * (2 * m + 1)
    /\ ((m > 0 /\ (2 * m - 1) * (2 * m - 1) = n) => m % 2 = 0)
    /\ ((2 * m + 1) * (2 * m + 1) = n => m % 2 = 0)

\* k is the neighbour count for the argument arg and n observed cells
IsNeighborCount(k, arg, n) ==
    IF arg.tag = "None" THEN IsRoundedHalfRoot(k, n) ELSE k = arg.v

\* C20: with n_neighbors None the neighbour count is round(0.5 * sqrt(n_obs)),
\* n_obs being the rows of the observed matrix given to the scorer, and an
\* explicit n_neighbors is used unchanged; in the object Scrublet() makes
\* and in the parameters scrublet() records
C20_AutoNeighbors ==
    /\ (adata.tag = "absent" /\ last.op = "__init__") =>
          IsNeighborCount(scrub.n_neighbors, last.n_neighbors, NObs)
    /\ Wrapped =>
          /\ IsNeighborCount(Uns.parameters.n_neighbors, last.n_neighbors,
                             Len(adata.X))
          /\ knn_call.k =
                KAdj(Uns.parameters.n_neighbors, Len(adata.X),
                     Len(Uns.doublet_parents))

\* a new object of 25 cells, where 0.5 * sqrt(n_obs) = 2.5 is rounded to 2
C20_Witness ==
    /\ adata.tag = "absent" /\ last.op = "__init__"
    /\ last.n_neighbors.tag = "None"
    /\ NObs = 25
    /\ scrub.n_neighbors = 2

\* scrublet() without n_neighbors on 3 cells, recorded as 1
C20_WitnessWrapper ==
    /\ Wrapped
    /\ last.n_neighbors.tag = "None"
    /\ Len(adata.X) = 3
    /\ Uns.parameters.n_neighbors = 1

(***************************************************************************)
(* scrublet() with either value of copy.                                   *)
(***************************************************************************)
scrublet_copy == ScrubletCall({<<TRUE, TRUE>>}, WrapThresholds, BOOLEAN, {FALSE})

SpecCopy == InitWrap /\ [][scrublet_copy]_vars

(***************************************************************************)
(* scrublet() with batch_key: the AnnData has an obs column "batch" that   *)
(* holds one of the labels 0..MaxLabel for every cell; a cell's name is    *)
(* its position in the caller's AnnData.  last.runs is the list of the     *)
(* _run_scrublet calls made: the batch, the names and raw counts of the    *)
(* cells it was given and the obs columns and uns it returned.             *)
(***************************************************************************)
MaxLabel == 1

\* np.unique(adata.obs[batch_key]): the distinct labels in increasing order
RECURSIVE UniqueFrom(_, _)
UniqueFrom(labels, b) ==
    IF b > MaxLabel THEN <<>>
    ELSE (IF \E i \in 1..Len(labels) : labels[i] = b THEN <<b>> ELSE <<>>)
            \o UniqueFrom(labels, b + 1)

Unique(labels) == UniqueFrom(labels, 0)

\* the positions i <= n with labels[i] = b, in increasing order
RECURSIVE NamesOf(_, _, _)
NamesOf(labels, b, n) ==
    IF n = 0 THEN <<>>
    ELSE NamesOf(labels, b, n - 1) \o (IF labels[n] = b THEN <<n>> ELSE <<>>)

\* adata_obs[adata_obs.obs[batch_key] == batch]: the names of the batch's cells
BatchNames(ad, batch) == NamesOf(ad.batch.v, batch, Len(ad.X))

\* the arguments of one scrublet() call that reach every _run_scrublet, the
\* UMI subsampling and get_doublet_neighbor_parents left at their defaults
BatchArgs(ad) ==
    [sim_doublet_ratio :
        {r \in PositiveRatios :
            \A b \in Range(Unique(ad.batch.v)) :
                LET n == Len(BatchNames(ad, b))
                IN  n + NSim(n, r) <= MaxPool},
     rate : {Fin(1, 1)}, n_neighbors : NeighborArgs, rho : DoubletRates,
     random_state : Seeds, get_parents : {FALSE},
     threshold : {NoneNum, Val(Fin(1, 2))}]

\* a _run_scrublet that raised
RunFailed(exc, rng, knn) ==
    [exc |-> exc, rng |-> rng, knn |-> knn, doublet_score |-> AbsentArr,
     predicted_doublet |-> AbsentArr, uns_scrublet |-> NoUns]

\* _run_scrublet from calculate_doublet_scores on: the outcomes for the
\* Scrublet object of _scrublet_call_doublets
RunScored(object, ad_sim, a) ==
    LET graphs == GraphsFor(object, FALSE)
    IN  IF graphs = {}
        THEN {RunFailed("ValueError", ad_sim.rng, KnnCallOf(object))}
        ELSE UNION {UNION {
               IF res.exc # "none"
               THEN {RunFailed(res.exc, ad_sim.rng,
                               [KnnCallOf(object) EXCEPT !.neighbors = neighbors])}
               ELSE {[exc |-> "none", rng |-> ad_sim.rng,
                      knn |-> [KnnCallOf(object) EXCEPT !.neighbors = neighbors],
                      doublet_score |-> out.doublet_score,
                      predicted_doublet |-> out.predicted_doublet,
                      uns_scrublet |-> out.uns_scrublet] :
                        out \in {ScrubletCallDoublets(
                                    res.self, ad_sim.sim_doublet_ratio, a.rho,
                                    a.get_parents, a.threshold, a.random_state,
                                    found) :
                                  found \in ThresholdMinimum(
                                              res.self.doublet_scores_sim_)}} :
               res \in NearestNeighborClassifier(
                          object, neighbors,
                          ScoreTable(object, KnnCallOf(object).k),
                          a.get_parents)} :
             neighbors \in graphs}

\* _run_scrublet(ad_obs) without adata_sim, ad_obs holding the raw counts X,
\* numpy's generator being in state rng0: the outcomes
RunScrublet(X, rng0, a) ==
    UNION {UNION {RunScored(object, ad_sim, a) :
             object \in {ScoringObject(
                            ApplyStages(WrapperObsStages(FALSE), AsFloat(X),
                                        <<>>),
                            ApplyStages(WrapperSimStages(FALSE),
                                        AsFloat(ad_sim.X), <<>>),
                            ad_sim.doublet_parents, a.n_neighbors, a.rho,
                            StdevRate, a.random_state)}} :
           ad_sim \in {ScrubletSimulateDoublets(X, rng0, a.sim_doublet_ratio,
                                                a.rate, DefaultRandomSeed)}}

\* the list comprehension over batches: the outcomes of the runs for the
\* batches of the list, one after the other, up to the first that raises
RECURSIVE RunBatches(_, _, _, _, _)
RunBatches(ad, batches, rng0, knn0, a) ==
    IF batches = <<>>
    THEN {[exc |-> "none", rng |-> rng0, knn |-> knn0, runs |-> <<>>]}
    ELSE UNION {
           IF first.exc # "none"
           THEN {[exc |-> first.exc, rng |-> first.rng, knn |-> first.knn,
                  runs |-> <<>>]}
           ELSE {[rest EXCEPT !.runs =
                     <<[batch |-> Head(batches), names |-> names,
                        counts |-> TakeRows(ad.X, [j \in 1..Len(names) |->
                                                     names[j] - 1]),
                        doublet_score |-> first.doublet_score.v,
                        predicted_doublet |-> first.predicted_doublet.v,
                        uns_scrublet |-> first.uns_scrublet]>> \o @] :
                   rest \in RunBatches(ad, Tail(batches), first.rng, first.knn,
                                       a)} :
           names \in {BatchNames(ad, Head(batches))},
           first \in RunScrublet(
                       TakeRows(ad.X, [j \in 1..Len(BatchNames(ad, Head(batches)))
                                         |-> BatchNames(ad, Head(batches))[j] - 1]),
                       rng0, a)}

\* pd.concat([scrub["obs"] for scrub in scrubbed]): the rows of the runs one
\* after the other, each with the name of its cell
RECURSIVE Concat(_)
Concat(runs) ==
    IF runs = <<>> THEN <<>>
    ELSE [j \in 1..Len(Head(runs).names) |->
            [name |-> Head(runs).names[j],
             doublet_score |-> Head(runs).doublet_score[j],
             predicted_doublet |-> Head(runs).predicted_doublet[j]]]
         \o Concat(Tail(runs))

\* variant: the rows are taken in the order of the concatenation
LocByPosition(frame, names) == frame

\* scrubbed_obs.loc[adata.obs_names.values]: for every name the row of the
\* frame that has it
LocByName(frame, names) ==
    [i \in 1..Len(names) |->
        frame[CHOOSE j \in 1..Len(frame) : frame[j].name = names[i]]]

\* uns["scrublet"] after a batched call
BatchedUns(runs, batch_key) ==
    [tag |-> "batched",
     batches |-> [b \in {runs[r].batch : r \in 1..Len(runs)} |->
                    LET r == CHOOSE r \in 1..Len(runs) : runs[r].batch = b
                    IN  runs[r].uns_scrublet],
     batched_by |-> batch_key]

\* an AnnData of 1..MaxPool - 1 cells with a label for every cell, not yet
\* annotated
InitBatch ==
    /\ mt \in Generators
    /\ \E n \in ObsSizes :
         \E labels \in [1..n -> 0..MaxLabel] :
            /\ adata = [AnnData(DetMatrix(n)) EXCEPT !.batch = Val(labels)]
            /\ BatchArgs(adata) # {}
    /\ scrub = Scrublet(DetMatrix(1), NoneArr, DefaultRatio, NoneInt, DefaultRate,
                        DefaultStdev, 0)
    /\ np_random = NpRandomSeed(0)
    /\ ret = Returned(NoneArr)
    /\ knn_call = NoKnn
    /\ ref = NoRef
    /\ last = NoCall

\* scrublet(adata, batch_key="batch", sim_doublet_ratio=...,
\*          expected_doublet_rate=..., use_approx_neighbors=False,
\*          n_neighbors=..., threshold=..., random_state=...)
scrublet_batched ==
    /\ adata.tag = "val"
    /\ adata.batch.tag = "val"
    /\ last.op = "__init__"
    /\ \E a \in BatchArgs(adata), batch_key \in {"batch"} :
       \E done \in RunBatches(adata, Unique(adata.batch.v), np_random, knn_call,
                              a) :
       \E call \in {[WrapperCall([tag |-> "val", v |-> batch_key],
                                 a.sim_doublet_ratio, a.rho, a.n_neighbors,
                                 a.random_state, TRUE, TRUE, FALSE, FALSE)
                       EXCEPT !.threshold = a.threshold,
                              !.rate = a.rate,
                              !.get_parents = a.get_parents,
                              !.runs = done.runs]} :
         /\ np_random' = done.rng
         /\ knn_call' = done.knn
         /\ last' = call
         /\ IF done.exc # "none"
            THEN /\ ret' = Raised(done.exc)
                 /\ UNCHANGED adata
            ELSE \E obs \in {LocByName(Concat(done.runs),
                                       [i \in 1..Len(adata.X) |-> i])} :
                 /\ adata' =
                      [adata EXCEPT
                         !.doublet_score =
                            Val([i \in 1..Len(obs) |-> obs[i].doublet_score]),
                         !.predicted_doublet =
                            Val([i \in 1..Len(obs) |-> obs[i].predicted_doublet]),
                         !.uns_scrublet = BatchedUns(done.runs, batch_key)]
                 /\ ret' = Returned(NoneArr)
    /\ UNCHANGED <<scrub, mt, ref>>

SpecBatch == InitBatch /\ [][scrublet_batched]_vars

C21_WitnessCalled ==
    /\ Wrapped
    /\ ~last.failed
    /\ last.n_neighbors = [tag |-> "val", v |-> 2]
    /\ Uns.parameters.n_neighbors = 2
    /\ Uns.parameters.expected_doublet_rate = Fin(1, 4)

(***************************************************************************)
(* Properties of copy.                                                     *)
(***************************************************************************)
\* ad holds the three results of a run
HasResults(ad) ==
    /\ ad.doublet_score.tag = "val"
    /\ ad.predicted_doublet.tag = "val"
    /\ ad.uns_scrublet.tag = "val"

C22_WitnessInPlace ==
    /\ Wrapped
    /\ ~last.copy
    /\ ret.v.tag = "None"
    /\ adata.doublet_score.tag = "val"

(***************************************************************************)
(* Properties of the batched call.                                         *)
(***************************************************************************)
\* scrublet() with a batch_key has returned
Batched == Wrapped /\ last.batch_key.tag = "val"

\* the cells of the caller's AnnData that carry the label b
CellsOf(b) == {i \in 1..Len(adata.X) : adata.batch.v[i] = b}

C24_ThresholdPresence ==
    adata.tag = "absent" =>
        /\ (scrub.threshold_.tag = "val") <=>
              (scrub.predicted_doublets_.tag = "val")
        /\ (last.op = "call_doublets" /\ last.failed) =>
              /\ scrub.predicted_doublets_.tag = "None"
              /\ scrub.threshold_.tag = "absent"
              /\ scrub.z_scores_.tag = "absent"
              /\ scrub.detected_doublet_rate_.tag = "absent"
              /\ scrub.detectable_doublet_fraction_.tag = "absent"
              /\ scrub.overall_doublet_rate_.tag = "absent"

(***************************************************************************)
(* Properties of the order of the stages.                                  *)
(***************************************************************************)
IsLog(stage) == stage \in {"log1p", "pipeline_log_transform"}
IsNormalizeToTarget(stage) ==
    stage \in {"normalize_total_1e6", "pipeline_normalize_1e6"}

\* in the list of stages one log transform runs, after a normalization to
\* the target sum and with no normalization after it
LogAfterNormalize(stages) ==
    /\ Len(SelectSeq(stages, IsLog)) = 1
    /\ \A i \in 1..Len(stages) :
          IsLog(stages[i]) =>
             /\ \E l \in 1..(i - 1) : IsNormalizeToTarget(stages[l])
             /\ \A l \in (i + 1)..Len(stages) : ~IsLog(stages[l])
                    /\ ~IsNormalizeToTarget(stages[l])
                    /\ stages[l] # "normalize_total"

\* C25: in scrub_doublets and in scrublet() alike, when log_transform is set
\* the log transform is applied to the observed and to the simulated matrix
\* after each was normalized to the target sum 1e6, and before the scaling
\* and the embedding (last.stages, which run on the result)
C25_LogAfterNormalize ==
    (last.op \in {"scrub_doublets", "scrublet"} /\ last.log_transform) =>
        /\ LogAfterNormalize(last.obs_stages)
        /\ LogAfterNormalize(last.sim_stages)
        /\ \A i \in 1..Len(last.stages) : ~IsLog(last.stages[i])

(***************************************************************************)
(* Properties of the scores' finiteness.                                   *)
(***************************************************************************)
AllFinite(x) == \A i \in 1..Len(x) : IsFin(x[i])

\* C26: for n_obs > 0, a ratio > 0 and 0 < rho < 1, calculate_doublet_scores
\* after simulate_doublets gives finite scores and errors only, for the
\* observed cells and for the doublets: n_sim / n_obs is positive, also when
\* n_obs * ratio < 1 (stated for the objects with n_neighbors > 0)
C26_FiniteScores ==
    (/\ Scored
     /\ scrub.n_neighbors > 0
     /\ NObs > 0
     /\ Positive(scrub.sim_doublet_ratio)
     /\ Positive(scrub.expected_doublet_rate)
     /\ FLess(scrub.expected_doublet_rate, One)) =>
        /\ NSimulated > 0
        /\ AllFinite(scrub.doublet_scores_obs_.v)
        /\ AllFinite(scrub.doublet_scores_sim_.v)
        /\ AllFinite(scrub.doublet_errors_obs_.v)
        /\ AllFinite(scrub.doublet_errors_sim_.v)

====
